---------------------------- MODULE Spec2Model ----------------------------
(***************************************************************************)
(* A model of the proton C++ message (message.cpp, carried in              *)
(* annotation_key.hpp after the annotation_key class) and of the Go        *)
(* binding's Marshal/encodeGrow (marshal.go).                              *)
(*                                                                         *)
(* A message has three map sections.  Each section lives either in a host  *)
(* map (the members properties_, annotations_, instructions_) or in a      *)
(* pn_data_t of the pn_message_t the message owns (the "subtree").         *)
(* get_map moves a section from the subtree to the host map, put_map moves *)
(* it back; encode, decode, clear, operator= and swap are built on them.   *)
(***************************************************************************)
EXTENDS Integers, Sequences, FiniteSets, TLC

(***************************************************************************)
(* Bounds of the model.                                                    *)
(***************************************************************************)
MaxOps == 4      \* operations performed on the messages in one behaviour
MaxWrites == 2   \* of them, writes into a host map

(***************************************************************************)
(* Program constants.                                                      *)
(***************************************************************************)
MinStringEncode == 512   \* message::encode: if (sz < 512) sz = 512
minEncode == 256         \* marshal.go: const minEncode = 256
DESC_INSTRUCTIONS == 113 \* 0x71 delivery-annotations
DESC_ANNOTATIONS == 114  \* 0x72 message-annotations
DESC_PROPERTIES == 116   \* 0x74 application-properties
DESC_BODY == 119         \* 0x77 amqp-value

Msgs == {"a", "b"}
Sec == {"properties", "annotations", "instructions"}
\* The keys and values the callers write.  Keys are ordered as std::map
\* orders them (operator<): KeyOrder lists them in increasing order.
KeyOrder == <<"x", "y">>
Keys == {KeyOrder[i] : i \in 1..Len(KeyOrder)}
Vals == {1, 2}

\* The body lengths and the string capacities the buffer-growth specification
\* draws from, and the buffer lengths and encoded sizes of Go's Marshal.
BodyLens == {100, 509, 510, 511, 1000, 1022, 1023, 3000, 10000}
Caps == {0, 15, 512, 600, 1024, 20000}
GoLens == {0, 1, 100, 256, 300, 1000}
GoSizes == {1, 100, 255, 256, 257, 512, 513, 600, 5000}

(***************************************************************************)
(* Host maps: std::map<K,V>, a function from a finite set of keys.         *)
(***************************************************************************)
EmptyMap == [k \in {} |-> 0]

map_empty(map) == DOMAIN map = {}

\* map[k] = v
map_set(map, k, v) == [x \in DOMAIN map \cup {k} |-> IF x = k THEN v ELSE map[x]]

\* map.erase(k)
map_erase(map, k) == [x \in DOMAIN map \ {k} |-> map[x]]

(***************************************************************************)
(* pn_data_t of a section: the children of its MAP node, key and value     *)
(* alternating; the empty sequence is the empty pn_data_t.                 *)
(***************************************************************************)
data_empty(d) == Len(d) = 0

Rank(k) == CHOOSE i \in 1..Len(KeyOrder) : KeyOrder[i] = k

MinOf(S) == CHOOSE x \in S : \A y \in S : Rank(x) <= Rank(y)

\* d.encoder() << map : std::map iterates in key order; each pair is put as
\* key then value.
RECURSIVE encode_map(_)
encode_map(map) ==
    IF DOMAIN map = {} THEN <<>>
    ELSE LET k == MinOf(DOMAIN map)
         IN  <<k, map[k]>> \o encode_map(map_erase(map, k))

\* d.decoder() >> rewind() >> map : reads the pairs in order into the map.
RECURSIVE decode_map(_, _)
decode_map(d, map) ==
    IF Len(d) < 2 THEN map
    ELSE decode_map(SubSeq(d, 3, Len(d)), map_set(map, d[1], d[2]))

(***************************************************************************)
(* MAP CACHING                                                             *)
(***************************************************************************)
\* Decode a map on demand.  The result is the pair (pn_data_t, host map).
get_map_noclear(d, map) ==
    IF map_empty(map) /\ ~data_empty(d)
    THEN [d |-> d, map |-> decode_map(d, EmptyMap)]
    ELSE [d |-> d, map |-> map]

get_map(d, map) ==
    IF map_empty(map) /\ ~data_empty(d)
    THEN [d |-> <<>>, map |-> decode_map(d, EmptyMap)]
    ELSE [d |-> d, map |-> map]

\* Encode a map if necessary.
put_map(d, map) ==
    IF data_empty(d) /\ ~map_empty(map)
    THEN [d |-> encode_map(map), map |-> EmptyMap]
    ELSE [d |-> d, map |-> map]

(***************************************************************************)
(* The wire form of a message: one frame per non-empty section, in the     *)
(* order delivery-annotations, message-annotations, application-properties,*)
(* body.  A map frame is <<descriptor, n, child_1 .. child_n>>; the body   *)
(* frame is <<DESC_BODY, n>> and stands for n payload bytes.               *)
(***************************************************************************)
Desc(s) == CASE s = "instructions" -> DESC_INSTRUCTIONS
             [] s = "annotations"  -> DESC_ANNOTATIONS
             [] s = "properties"   -> DESC_PROPERTIES

SecOf(desc) == CHOOSE s \in Sec : Desc(s) = desc

frame(desc, d) == IF data_empty(d) THEN <<>> ELSE <<desc, Len(d)>> \o d

\* The bytes pn_message_encode writes for the pn_message_t msg.
pn_message_data(msg) ==
    frame(DESC_INSTRUCTIONS, msg.instructions)
      \o frame(DESC_ANNOTATIONS, msg.annotations)
      \o frame(DESC_PROPERTIES, msg.properties)
      \o (IF msg.body = 0 THEN <<>> ELSE <<DESC_BODY, msg.body>>)

\* The payload bytes a body frame stands for.
RECURSIVE payload(_)
payload(bytes) ==
    IF Len(bytes) < 2 THEN 0
    ELSE IF bytes[1] = DESC_BODY THEN bytes[2] + payload(SubSeq(bytes, 3, Len(bytes)))
    ELSE IF Len(bytes) < 2 + bytes[2] THEN 0
    ELSE payload(SubSeq(bytes, 3 + bytes[2], Len(bytes)))

\* The number of bytes of an encoding.
size(bytes) == Len(bytes) + payload(bytes)

\* A pn_message_t with nothing in it (pn_message(), pn_message_clear).
pn_message == [properties |-> <<>>, annotations |-> <<>>, instructions |-> <<>>,
               body |-> 0]

\* pn_message_encode(msg, buf, &sz): PN_OVERFLOW when the bytes do not fit
\* in sz, else success with sz set to the encoded size.
pn_message_encode(msg, sz) ==
    LET bytes == pn_message_data(msg)
    IN  IF size(bytes) > sz
        THEN [err |-> "PN_OVERFLOW", sz |-> sz, bytes |-> <<>>]
        ELSE [err |-> "", sz |-> size(bytes), bytes |-> bytes]

\* Parsing of the frames of an encoding into msg; err when a frame is cut
\* short, has an unknown descriptor or a map frame has an odd child count.
RECURSIVE parse(_, _)
parse(bytes, msg) ==
    IF Len(bytes) = 0 THEN [err |-> "", msg |-> msg]
    ELSE IF Len(bytes) < 2 THEN [err |-> "PN_ERR", msg |-> pn_message]
    ELSE IF bytes[1] = DESC_BODY
         THEN parse(SubSeq(bytes, 3, Len(bytes)), [msg EXCEPT !.body = bytes[2]])
    ELSE IF bytes[1] \notin {Desc(s) : s \in Sec} \/ bytes[2] % 2 = 1
            \/ Len(bytes) < 2 + bytes[2]
         THEN [err |-> "PN_ERR", msg |-> pn_message]
    ELSE parse(SubSeq(bytes, 3 + bytes[2], Len(bytes)),
               [msg EXCEPT ![SecOf(bytes[1])] = SubSeq(bytes, 3, 2 + bytes[2])])

\* pn_message_decode(msg, bytes, size): the tree becomes what the bytes hold;
\* malformed bytes leave it as pn_message_clear does.
pn_message_decode(msg, bytes) == parse(bytes, pn_message)

\* pn_message_clear(msg)
pn_message_clear(msg) == pn_message

(***************************************************************************)
(* The message operations, as functions of the message's members: maps is  *)
(* the record of properties_, annotations_ and instructions_, msg is the   *)
(* pn_message_t behind impl_.msg (a message whose impl_.msg is still null  *)
(* behaves as one holding an empty pn_message_t, which pn_msg() creates on *)
(* first use).                                                             *)
(***************************************************************************)
NoMaps == [s \in Sec |-> EmptyMap]

\* properties() / annotations() / instructions(), const or not: get_map on
\* the section's pn_data_t and member map.
accessor(maps, msg, s) ==
    LET r == get_map(msg[s], maps[s])
    IN  [maps |-> [maps EXCEPT ![s] = r.map], msg |-> [msg EXCEPT ![s] = r.d]]

\* size_t sz = s.capacity(); if (sz < 512) sz = 512;
first_size_fixed(cap) == MinStringEncode

first_size(cap) == IF cap < MinStringEncode THEN MinStringEncode ELSE cap

\* sz *= 2
next_size(sz) == sz * 2

\* The while (true) loop of message::encode: the sizes s is resized to, up
\* to the first one pn_message_encode accepts.
RECURSIVE encode_loop(_, _)
encode_loop(msg, sz) ==
    IF pn_message_encode(msg, sz).err = "PN_OVERFLOW"
    THEN <<sz>> \o encode_loop(msg, next_size(sz))
    ELSE <<sz>>

\* The three put_map calls that open message::encode.
encode_put_maps_two(maps, msg) ==
    LET p == put_map(msg.properties, maps.properties)
        a == put_map(msg.annotations, maps.annotations)
    IN  [maps |-> [properties |-> p.map, annotations |-> a.map,
                   instructions |-> maps.instructions],
         msg |-> [msg EXCEPT !.properties = p.d, !.annotations = a.d]]

encode_put_maps(maps, msg) ==
    LET p == put_map(msg.properties, maps.properties)
        a == put_map(msg.annotations, maps.annotations)
        i == put_map(msg.instructions, maps.instructions)
    IN  [maps |-> [properties |-> p.map, annotations |-> a.map,
                   instructions |-> i.map],
         msg |-> [msg EXCEPT !.properties = p.d, !.annotations = a.d,
                             !.instructions = i.d]]

\* message::encode(std::string& s), s having capacity cap: the members
\* afterwards, the sizes tried, and s (its bytes, and a capacity that
\* covers the largest size it was resized to).
message_encode(maps, msg, cap) ==
    LET put == encode_put_maps(maps, msg)
        tried == encode_loop(put.msg, first_size(cap))
        final == pn_message_encode(put.msg, tried[Len(tried)])
    IN  [maps |-> put.maps, msg |-> put.msg, tried |-> tried,
         s |-> [bytes |-> final.bytes, size |-> final.sz,
                cap |-> IF cap < tried[Len(tried)] THEN tried[Len(tried)] ELSE cap]]

\* check(err): if (err) throw error(error_str(err)).  TRUE: it throws.
check_ignore(err) == FALSE

check(err) == err # ""

\* message::decode(const std::string& s): the three member maps are cleared,
\* then pn_message_decode parses the bytes; threw: check() raised its error.
message_decode_keep(maps, msg, bytes) ==
    LET r == pn_message_decode(msg, bytes)
    IN  [maps |-> maps, msg |-> r.msg, threw |-> check(r.err)]

message_decode(maps, msg, bytes) ==
    LET r == pn_message_decode(msg, bytes)
    IN  [maps |-> NoMaps, msg |-> r.msg, threw |-> check(r.err)]

\* message::clear(): pn_message_clear on the pn_message_t; the member maps
\* are not touched.
message_clear(maps, msg) == [maps |-> maps, msg |-> pn_message_clear(msg)]

(***************************************************************************)
(* Go's marshal.go: host values, the pn_data_t tree, marshal and unmarshal.*)
(*                                                                         *)
(* A Go type is a sequence of words: <<"int32">>, <<"[]", "int32">> (a     *)
(* slice), <<"[N]", "uint8">> (an array), <<"map", "string", "int32">>,    *)
(* <<"*", "int32">> (a pointer), <<"interface{}">>.  A Go value is a       *)
(* record of its dynamic type t, its number n, its bytes b (the bytes of a *)
(* string, Binary, Symbol or UUID; the 8 bytes, least significant first,   *)
(* of the UnixNano of a time.Time) and its children kids (the elements of  *)
(* a slice, the keys and values of a map alternating, the descriptor and   *)
(* value of a Described, the value of an AnnotationKey).                   *)
(***************************************************************************)
GoVal(t, n, b, kids) == [t |-> t, n |-> n, b |-> b, kids |-> kids]

Nil == GoVal(<<"nil">>, 0, <<>>, <<>>)

\* reflect.Type.Kind()
Kind(t) ==
    CASE t[1] = "[]" -> "slice"
      [] t[1] = "[N]" -> "array"
      [] t[1] = "map" -> "map"
      [] t[1] = "*" -> "ptr"
      [] t[1] \in {"List", "Binary", "Array"} -> "slice"
      [] t[1] = "Map" -> "map"
      [] t[1] = "interface{}" -> "interface"
      [] t[1] \in {"Described", "AnnotationKey", "time.Time"} -> "struct"
      [] t[1] = "UUID" -> "array"
      [] t[1] = "Symbol" -> "string"
      [] t[1] = "Char" -> "int32"
      [] OTHER -> t[1]

\* reflect.Type.Elem() and reflect.Type.Key()
Elem(t) ==
    CASE t[1] \in {"[]", "[N]", "*"} -> Tail(t)
      [] t[1] = "map" -> SubSeq(t, 3, Len(t))
      [] t[1] \in {"List", "Map", "Array"} -> <<"interface{}">>
      [] t[1] \in {"Binary", "UUID"} -> <<"uint8">>

Key(t) == IF t[1] = "Map" THEN <<"interface{}">> ELSE <<t[2]>>

\* A 64-bit integer as 8 bytes, the least significant first (two's
\* complement), and the arithmetic Go does on int64: it wraps at 2^64.
RECURSIVE le_bytes(_, _)
le_bytes(n, w) ==
    IF w = 0 THEN <<>> ELSE <<n % 256>> \o le_bytes(n \div 256, w - 1)

I64(n) == le_bytes(n, 8)

RECURSIVE mul_carry(_, _, _, _)
mul_carry(a, m, i, carry) ==
    IF i > Len(a) THEN <<>>
    ELSE LET p == a[i] * m + carry
         IN  <<p % 256>> \o mul_carry(a, m, i + 1, p \div 256)

\* a * m in int64 arithmetic, m a small positive constant
i64_mul(a, m) == mul_carry(a, m, 1, 0)

RECURSIVE add_carry(_, _, _)
add_carry(a, i, carry) ==
    IF i > Len(a) THEN <<>>
    ELSE LET p == a[i] + carry
         IN  <<p % 256>> \o add_carry(a, i + 1, p \div 256)

i64_neg(a) == add_carry([i \in 1..Len(a) |-> 255 - a[i]], 1, 1)

i64_negative(a) == a[Len(a)] >= 128

RECURSIVE udiv(_, _, _, _)
udiv(a, m, i, rem) ==
    IF i = 0 THEN <<>>
    ELSE LET x == rem * 256 + a[i]
         IN  udiv(a, m, i - 1, x % m) \o <<x \div m>>

\* a / m in int64 arithmetic (Go truncates toward zero)
i64_div(a, m) ==
    IF i64_negative(a) THEN i64_neg(udiv(i64_neg(a), m, Len(a), 0))
    ELSE udiv(a, m, Len(a), 0)

(***************************************************************************)
(* pn_data_t: a tree of nodes.  A node has its type tag, its number n (the *)
(* integer, bool, char and float types), its bytes b (binary, string,      *)
(* symbol, uuid; the 8 bytes of a timestamp), the element tag et of an     *)
(* array, and its children kids.                                           *)
(***************************************************************************)
Node(type, n, b, et, kids) ==
    [type |-> type, n |-> n, b |-> b, et |-> et, kids |-> kids]

Scalar(type, n) == Node(type, n, <<>>, "", <<>>)

Bytes(type, b) == Node(type, 0, b, "", <<>>)

Composite(type, et, kids) == Node(type, 0, <<>>, et, kids)

\* pn_data_type on an empty data object
Invalid == Scalar("PN_INVALID", 0)

(***************************************************************************)
(* marshal                                                                 *)
(***************************************************************************)
intIsLong == TRUE   \* unsafe.Sizeof(int(0)) == 8: a 64-bit build

NoErr == [GoType |-> <<>>, s |-> <<>>]

\* newMarshalError(v, s): "cannot marshal <type>: <s>"
newMarshalError(v, s) ==
    [GoType |-> v.t, s |-> <<"cannot marshal">> \o v.t \o <<":", s>>]

\* The outcomes of marshal: it returns a tag, having put the nodes put
\* under the cursor; it panics with a MarshalError; or the process dies.
MOk(tag, put) == [tag |-> tag, put |-> put, err |-> NoErr, crash |-> FALSE]

MPanic(err) == [tag |-> "", put |-> <<>>, err |-> err, crash |-> FALSE]

MCrash == [tag |-> "", put |-> <<>>, err |-> NoErr, crash |-> TRUE]

m_ok(r) == r.err = NoErr /\ ~r.crash

\* if data != nil { C.pn_data_put_xxx(data, ...) }; return C.PN_XXX
put_checked(data, node) == MOk(node.type, IF data THEN <<node>> ELSE <<>>)

\* C.pn_data_put_xxx(data, ...); return C.PN_XXX  -- data is not tested.
\* With data == nil the C function is handed a null pointer, which is
\* undefined: ub is what the build makes of it, the process dying ("crash")
\* or the call having no effect ("return").
put_unchecked(data, node, ub) ==
    IF data THEN MOk(node.type, <<node>>)
    ELSE IF ub = "crash" THEN MCrash ELSE MOk(node.type, <<>>)

\* reflect.Zero(t).Interface()
Zero(t) ==
    CASE t = <<"time.Time">> -> GoVal(t, 0, I64(0), <<>>)
      [] t = <<"Described">> -> GoVal(t, 0, <<>>, <<Nil, Nil>>)
      [] t = <<"AnnotationKey">> -> GoVal(t, 0, <<>>, <<Nil>>)
      [] t = <<"UUID">> -> GoVal(t, 0, [i \in 1..16 |-> 0], <<>>)
      [] OTHER -> GoVal(t, 0, <<>>, <<>>)

\* m.MapKeys(): the keys of a Go map come in no particular order; order
\* says whether this call yields them as stored or the other way round.
RECURSIVE reverse_pairs(_)
reverse_pairs(kids) ==
    IF Len(kids) < 2 THEN <<>>
    ELSE reverse_pairs(SubSeq(kids, 3, Len(kids))) \o SubSeq(kids, 1, 2)

MapKeys(kids, order) == IF order = "rev" THEN reverse_pairs(kids) ELSE kids

\* C.pn_timestamp_t(v.UnixNano()/1000)
timestamp_of(nano) == i64_div(nano, 1000)

\* The tag an integer type is put with.
int_tag(t) ==
    CASE t = <<"int8">> -> "PN_BYTE"
      [] t = <<"int16">> -> "PN_SHORT"
      [] t = <<"int32">> -> "PN_INT"
      [] t = <<"int64">> -> "PN_LONG"
      [] t = <<"int">> -> IF intIsLong THEN "PN_LONG" ELSE "PN_INT"
      [] t = <<"uint8">> -> "PN_UBYTE"
      [] t = <<"uint16">> -> "PN_USHORT"
      [] t = <<"uint32">> -> "PN_UINT"
      [] t = <<"uint64">> -> "PN_ULONG"
      [] t = <<"uint">> -> IF intIsLong THEN "PN_ULONG" ELSE "PN_UINT"

\* if t.Kind() == reflect.Interface { LIST } else { ARRAY }
sequence_tag(t) == IF Kind(t) = "interface" THEN "PN_LIST" ELSE "PN_ARRAY"

\* default: panic(newMarshalError(v, "no conversion"))
no_conversion_null(v) == MOk("PN_NULL", <<>>)

no_conversion(v) == MPanic(newMarshalError(v, "no conversion"))

\* A put after another: the first panic or crash ends the sequence.
put_all(first, rest) ==
    IF ~m_ok(first) THEN first
    ELSE IF ~m_ok(rest) THEN rest
    ELSE MOk("", first.put \o rest.put)

\* pn_data_put_xxx; pn_data_enter; the children r; pn_data_exit: the node
\* with its children, or the panic or crash of a child.
put_composite(tag, r) ==
    IF ~m_ok(r) THEN r ELSE MOk(tag, <<Composite(tag, "", r.put)>>)

\* pn_data_put_list or pn_data_put_array(data, false, pnType) with the
\* children r; pn the result of marshal(zero, nil), the element tag.
put_sequence(ret, pn, r) ==
    IF ~m_ok(pn) THEN pn
    ELSE IF ~m_ok(r) THEN r
    ELSE MOk(ret, <<Composite(ret, pn.tag, r.put)>>)

\* case Described with data == nil: pn_data_put_described and pn_data_enter
\* on the nil data (put), then descriptor and value marshalled with nil (r).
put_on_nil(tag, put, r) ==
    IF ~m_ok(put) THEN put
    ELSE IF ~m_ok(r) THEN r
    ELSE MOk(tag, <<>>)

RECURSIVE marshal(_, _, _, _)
RECURSIVE marshal_children(_, _, _, _)

\* The for loops of marshal over the children of a map, slice or array:
\* every child is marshalled in turn; a panic ends the loop.
marshal_children(vals, data, ub, order) ==
    IF Len(vals) = 0 THEN MOk("", <<>>)
    ELSE put_all(marshal(Head(vals), data, ub, order),
                 marshal_children(Tail(vals), data, ub, order))

\* marshal(i, data): data is TRUE for data != nil.  (The deferred check of
\* pn_data_error finds no error: the puts below do not fail.)
marshal(v, data, ub, order) ==
    CASE v.t = <<"nil">> -> put_checked(data, Scalar("PN_NULL", 0))
      [] v.t = <<"bool">> -> put_checked(data, Scalar("PN_BOOL", v.n))
      [] v.t \in {<<"int8">>, <<"int16">>, <<"int32">>, <<"int64">>,
                  <<"uint8">>, <<"uint16">>, <<"uint32">>, <<"uint64">>} ->
            put_checked(data, Scalar(int_tag(v.t), v.n))
      [] v.t \in {<<"int">>, <<"uint">>} ->
            put_unchecked(data, Scalar(int_tag(v.t), v.n), ub)
      [] v.t = <<"float32">> -> put_checked(data, Scalar("PN_FLOAT", v.n))
      [] v.t = <<"float64">> -> put_checked(data, Scalar("PN_DOUBLE", v.n))
      [] v.t = <<"string">> -> put_checked(data, Bytes("PN_STRING", v.b))
      [] v.t \in {<<"[]", "uint8">>, <<"Binary">>} ->
            put_checked(data, Bytes("PN_BINARY", v.b))
      [] v.t = <<"Symbol">> -> put_checked(data, Bytes("PN_SYMBOL", v.b))
      [] v.t = <<"Described">> ->
            IF ~data
            THEN put_on_nil("PN_DESCRIBED",
                            put_unchecked(data, Composite("PN_DESCRIBED", "", <<>>), ub),
                            marshal_children(v.kids, data, ub, order))
            ELSE put_composite("PN_DESCRIBED",
                               marshal_children(v.kids, data, ub, order))
      [] v.t = <<"AnnotationKey">> -> marshal(v.kids[1], data, ub, order)
      [] v.t = <<"time.Time">> ->
            put_checked(data, Bytes("PN_TIMESTAMP", timestamp_of(v.b)))
      [] v.t = <<"UUID">> -> put_checked(data, Bytes("PN_UUID", v.b))
      [] v.t = <<"Char">> -> put_checked(data, Scalar("PN_CHAR", v.n))
      [] OTHER ->
            CASE Kind(v.t) = "map" ->
                   IF ~data THEN MOk("PN_MAP", <<>>)
                   ELSE put_composite("PN_MAP",
                                      marshal_children(MapKeys(v.kids, order),
                                                       data, ub, order))
              [] Kind(v.t) \in {"slice", "array"} ->
                   IF ~data THEN MOk(sequence_tag(Elem(v.t)), <<>>)
                   ELSE put_sequence(sequence_tag(Elem(v.t)),
                                     IF Kind(Elem(v.t)) = "interface"
                                     THEN MOk("", <<>>)
                                     ELSE marshal(Zero(Elem(v.t)), FALSE, ub, order),
                                     marshal_children(v.kids, data, ub, order))
              [] OTHER -> no_conversion(v)

(***************************************************************************)
(* The AMQP 1.0 encoding of a pn_data_t tree (pn_data_encode and           *)
(* pn_data_decode of the C library): a constructor byte, then a payload of *)
(* fixed width or a size-prefixed one.  The encoder writes the compact     *)
(* forms (uint0, smalluint, smallint, ulong0, smallulong, smalllong,       *)
(* list0); the decoder reads both.  An array writes the constructor of its *)
(* elements once and then their payloads.                                  *)
(***************************************************************************)
RECURSIVE be_bytes(_, _)
be_bytes(n, w) ==
    IF w = 0 THEN <<>> ELSE be_bytes(n \div 256, w - 1) \o <<n % 256>>

RECURSIVE be_unsigned(_)
be_unsigned(bytes) ==
    IF Len(bytes) = 0 THEN 0
    ELSE 256 * be_unsigned(SubSeq(bytes, 1, Len(bytes) - 1)) + bytes[Len(bytes)]

RECURSIVE be_signed(_)
be_signed(bytes) ==
    IF Len(bytes) = 1 THEN (IF bytes[1] >= 128 THEN bytes[1] - 256 ELSE bytes[1])
    ELSE 256 * be_signed(SubSeq(bytes, 1, Len(bytes) - 1)) + bytes[Len(bytes)]

Reverse(s) == [i \in 1..Len(s) |-> s[Len(s) + 1 - i]]

\* The fixed-width types: constructor, payload width, signed?
FixedTypes ==
    {<<"PN_UBYTE", 80, 1, FALSE>>, <<"PN_BYTE", 81, 1, TRUE>>,
     <<"PN_USHORT", 96, 2, FALSE>>, <<"PN_SHORT", 97, 2, TRUE>>,
     <<"PN_UINT", 112, 4, FALSE>>, <<"PN_INT", 113, 4, TRUE>>,
     <<"PN_ULONG", 128, 8, FALSE>>, <<"PN_LONG", 129, 8, TRUE>>,
     <<"PN_FLOAT", 114, 4, TRUE>>, <<"PN_DOUBLE", 130, 8, TRUE>>,
     <<"PN_CHAR", 115, 4, FALSE>>, <<"PN_BOOL", 86, 1, FALSE>>}

\* The types whose payload is the bytes b: constructor, width (0: the
\* payload carries its length in one byte).
BytesTypes ==
    {<<"PN_TIMESTAMP", 131, 8>>, <<"PN_UUID", 152, 16>>,
     <<"PN_BINARY", 160, 0>>, <<"PN_STRING", 161, 0>>, <<"PN_SYMBOL", 163, 0>>}

CompositeTypes == {<<"PN_LIST", 192>>, <<"PN_MAP", 193>>, <<"PN_ARRAY", 224>>}

Fixed(type) == CHOOSE f \in FixedTypes : f[1] = type

\* The constructor every element of an array of this type is written under.
Constructor(type) ==
    CASE type = "PN_NULL" -> 64
      [] type = "PN_DESCRIBED" -> 0
      [] \E f \in FixedTypes : f[1] = type -> Fixed(type)[2]
      [] \E f \in BytesTypes : f[1] = type -> (CHOOSE f \in BytesTypes : f[1] = type)[2]
      [] \E f \in CompositeTypes : f[1] = type ->
             (CHOOSE f \in CompositeTypes : f[1] = type)[2]

\* A compound value: the size of what follows, the count (and, for an
\* array, the constructor of the elements) and the children.
compound(head, body) == <<Len(head) + Len(body)>> \o head \o body

RECURSIVE wire(_)
RECURSIVE wire_payload(_)
RECURSIVE wire_all(_)
RECURSIVE wire_payloads(_)

\* The payload of a node under its full-width constructor.
wire_payload(node) ==
    CASE node.type = "PN_NULL" -> <<>>
      [] \E f \in FixedTypes : f[1] = node.type ->
             be_bytes(node.n, Fixed(node.type)[3])
      [] node.type = "PN_TIMESTAMP" -> Reverse(node.b)
      [] node.type = "PN_UUID" -> node.b
      [] node.type \in {"PN_BINARY", "PN_STRING", "PN_SYMBOL"} ->
             <<Len(node.b)>> \o node.b
      [] node.type \in {"PN_LIST", "PN_MAP"} ->
             compound(<<Len(node.kids)>>, wire_all(node.kids))
      [] node.type = "PN_ARRAY" ->
             compound(<<Len(node.kids), Constructor(node.et)>>,
                      wire_payloads(node.kids))
      [] node.type = "PN_DESCRIBED" -> wire_all(node.kids)

\* One value: the compact form where there is one.
wire(node) ==
    CASE node.type = "PN_BOOL" -> IF node.n = 1 THEN <<65>> ELSE <<66>>
      [] node.type = "PN_UINT" /\ node.n = 0 -> <<67>>
      [] node.type = "PN_UINT" /\ node.n \in 1..255 -> <<82, node.n>>
      [] node.type = "PN_INT" /\ node.n \in -128..127 -> <<84, node.n % 256>>
      [] node.type = "PN_ULONG" /\ node.n = 0 -> <<68>>
      [] node.type = "PN_ULONG" /\ node.n \in 1..255 -> <<83, node.n>>
      [] node.type = "PN_LONG" /\ node.n \in -128..127 -> <<85, node.n % 256>>
      [] node.type = "PN_LIST" /\ Len(node.kids) = 0 -> <<69>>
      [] OTHER -> <<Constructor(node.type)>> \o wire_payload(node)

wire_all(nodes) ==
    IF Len(nodes) = 0 THEN <<>> ELSE wire(Head(nodes)) \o wire_all(Tail(nodes))

wire_payloads(nodes) ==
    IF Len(nodes) = 0 THEN <<>>
    ELSE wire_payload(Head(nodes)) \o wire_payloads(Tail(nodes))

\* pn_data_encode(data, buf, size): the bytes of the values of the tree.
pn_data_encode(nodes) == wire_all(nodes)

\* Reading: the result is the status ("ok", "underflow" when the bytes end
\* before the value does, "error" when they are no encoding), the node read
\* and the bytes left.
Read(st, node, rest) == [st |-> st, node |-> node, rest |-> rest]

Drop(bytes, k) == SubSeq(bytes, k + 1, Len(bytes))

\* The compact constructors: the type and the value they stand for.
read_compact(ctor) ==
    CASE ctor = 64 -> Scalar("PN_NULL", 0)
      [] ctor = 65 -> Scalar("PN_BOOL", 1)
      [] ctor = 66 -> Scalar("PN_BOOL", 0)
      [] ctor = 67 -> Scalar("PN_UINT", 0)
      [] ctor = 68 -> Scalar("PN_ULONG", 0)
      [] ctor = 69 -> Composite("PN_LIST", "", <<>>)

\* The one-byte constructors: small unsigned and small signed integers.
SmallTypes ==
    {<<82, "PN_UINT", FALSE>>, <<83, "PN_ULONG", FALSE>>,
     <<84, "PN_INT", TRUE>>, <<85, "PN_LONG", TRUE>>}

TypeOfConstructor(ctor) ==
    CASE \E f \in FixedTypes : f[2] = ctor -> (CHOOSE f \in FixedTypes : f[2] = ctor)[1]
      [] \E f \in BytesTypes : f[2] = ctor -> (CHOOSE f \in BytesTypes : f[2] = ctor)[1]
      [] \E f \in CompositeTypes : f[2] = ctor ->
             (CHOOSE f \in CompositeTypes : f[2] = ctor)[1]
      [] ctor = 64 -> "PN_NULL"
      [] ctor = 0 -> "PN_DESCRIBED"
      [] OTHER -> "PN_INVALID"

\* r, then the values more read after it.
read_cons(r, more) ==
    [st |-> more.st, nodes |-> <<r.node>> \o more.nodes, rest |-> more.rest]

\* A number of the fixed-width type f from the front of the bytes.
read_fixed(f, bytes) ==
    IF Len(bytes) < f[3] THEN Read("underflow", Invalid, bytes)
    ELSE Read("ok",
              Scalar(f[1], IF f[4] THEN be_signed(SubSeq(bytes, 1, f[3]))
                           ELSE be_unsigned(SubSeq(bytes, 1, f[3]))),
              Drop(bytes, f[3]))

\* A small integer of the one-byte type f.
read_small(f, bytes) ==
    IF Len(bytes) < 1 THEN Read("underflow", Invalid, bytes)
    ELSE Read("ok", Scalar(f[2], IF f[3] THEN be_signed(<<bytes[1]>>) ELSE bytes[1]),
              Drop(bytes, 1))

\* w bytes of the type after the k bytes of their length.
read_bytes(type, k, w, bytes) ==
    IF Len(bytes) < k + w THEN Read("underflow", Invalid, bytes)
    ELSE Read("ok",
              Bytes(type, IF type = "PN_TIMESTAMP"
                          THEN Reverse(SubSeq(bytes, k + 1, k + w))
                          ELSE SubSeq(bytes, k + 1, k + w)),
              Drop(bytes, k + w))

\* A list, map or array of size sz whose header after the size has hdr
\* bytes; r is what was read from its body.
read_compound(ctor, sz, hdr, bytes, r) ==
    IF sz < hdr \/ r.st # "ok" \/ Len(r.rest) # 0
    THEN Read("error", Invalid, bytes)
    ELSE Read("ok",
              Composite(TypeOfConstructor(ctor),
                        IF ctor = 224 THEN TypeOfConstructor(bytes[3]) ELSE "",
                        r.nodes),
              Drop(bytes, 1 + sz))

\* A described value; r is the descriptor and the value read.
read_described(bytes, r) ==
    IF r.st # "ok" THEN Read(r.st, Invalid, bytes)
    ELSE Read("ok", Composite("PN_DESCRIBED", "", r.nodes), r.rest)

RECURSIVE read_payload(_, _)
RECURSIVE read_one(_, _)
RECURSIVE read_count(_, _, _)
RECURSIVE read_more(_, _, _, _)

\* One value with its own constructor (ctor = -1), or one payload under
\* the constructor ctor of an array.
read_one(ctor, bytes) ==
    IF ctor >= 0 THEN read_payload(ctor, bytes)
    ELSE IF Len(bytes) = 0 THEN Read("underflow", Invalid, bytes)
    ELSE read_payload(Head(bytes), Tail(bytes))

\* k values: r is the first, the others follow it.
read_more(ctor, k, bytes, r) ==
    IF r.st # "ok" THEN [st |-> r.st, nodes |-> <<>>, rest |-> bytes]
    ELSE read_cons(r, read_count(ctor, k - 1, r.rest))

read_count(ctor, k, bytes) ==
    IF k = 0 THEN [st |-> "ok", nodes |-> <<>>, rest |-> bytes]
    ELSE read_more(ctor, k, bytes, read_one(ctor, bytes))

read_payload(ctor, bytes) ==
    CASE ctor \in 64..69 -> Read("ok", read_compact(ctor), bytes)
      [] \E f \in SmallTypes : f[1] = ctor ->
             read_small(CHOOSE g \in SmallTypes : g[1] = ctor, bytes)
      [] \E f \in FixedTypes : f[2] = ctor ->
             read_fixed(CHOOSE g \in FixedTypes : g[2] = ctor, bytes)
      [] \E f \in BytesTypes : f[2] = ctor /\ f[3] > 0 ->
             read_bytes(TypeOfConstructor(ctor), 0,
                        (CHOOSE g \in BytesTypes : g[2] = ctor)[3], bytes)
      [] \E f \in BytesTypes : f[2] = ctor /\ f[3] = 0 ->
             IF Len(bytes) < 1 THEN Read("underflow", Invalid, bytes)
             ELSE read_bytes(TypeOfConstructor(ctor), 1, bytes[1], bytes)
      [] ctor \in {192, 193, 224} ->
             IF Len(bytes) < 1 \/ Len(bytes) < 1 + bytes[1]
             THEN Read("underflow", Invalid, bytes)
             ELSE read_compound(ctor, bytes[1], IF ctor = 224 THEN 2 ELSE 1, bytes,
                                read_count(IF ctor = 224 THEN bytes[3] ELSE -1,
                                           bytes[2],
                                           SubSeq(bytes,
                                                  IF ctor = 224 THEN 4 ELSE 3,
                                                  1 + bytes[1])))
      [] ctor = 0 -> read_described(bytes, read_count(-1, 2, bytes))
      [] OTHER -> Read("error", Invalid, bytes)

PN_UNDERFLOW == -4

PN_ERR == -2

\* What pn_data_decode returns for the value r read.
decoded(bytes, r) ==
    CASE r.st = "ok" -> [n |-> Len(bytes) - Len(r.rest), data |-> <<r.node>>]
      [] r.st = "underflow" -> [n |-> PN_UNDERFLOW, data |-> <<>>]
      [] OTHER -> [n |-> PN_ERR, data |-> <<>>]

\* pn_data_decode(data, bytes, size): reads one value from the front of the
\* bytes into the tree and returns the count of bytes read, PN_UNDERFLOW
\* when the bytes hold no complete value, or another negative code.
pn_data_decode(bytes) == decoded(bytes, read_one(-1, bytes))

(***************************************************************************)
(* unmarshal                                                               *)
(*                                                                         *)
(* The target v is given by its Go type (<<"*", "int32">> for a *int32);   *)
(* the result is the error unmarshal panics with, or the value it leaves   *)
(* in *v.                                                                  *)
(***************************************************************************)
NoUErr == [AMQPType |-> "", GoType |-> <<>>, s |-> <<>>]

\* newUnmarshalErrorMsg(pnType, v, msg)
newUnmarshalErrorMsg(pnType, t, msg) ==
    LET m == IF Len(msg) > 0 THEN <<":", msg>> ELSE <<>>
    IN  [AMQPType |-> pnType, GoType |-> t,
         s |-> IF Kind(t) # "ptr"
               THEN <<"cannot unmarshal to type">> \o t \o <<", not a pointer">> \o m
               ELSE <<"cannot unmarshal AMQP", pnType, "to">> \o t \o m]

newUnmarshalError(pnType, t) == newUnmarshalErrorMsg(pnType, t, "")

UOk(v) == [err |-> NoUErr, v |-> v]

UPanic(err) == [err |-> err, v |-> Nil]

u_ok(r) == r.err = NoUErr

\* The switch of unmarshal over the targets of fixed type: the AMQP types
\* each target has a case for.
allowed(t) ==
    CASE t = <<"bool">> -> {"PN_BOOL"}
      [] t = <<"int8">> -> {"PN_BYTE"}
      [] t = <<"uint8">> -> {"PN_UBYTE"}
      [] t = <<"int16">> -> {"PN_BYTE", "PN_SHORT"}
      [] t = <<"uint16">> -> {"PN_UBYTE", "PN_USHORT"}
      [] t = <<"int32">> -> {"PN_CHAR", "PN_BYTE", "PN_SHORT", "PN_INT"}
      [] t = <<"uint32">> -> {"PN_CHAR", "PN_UBYTE", "PN_USHORT", "PN_UINT"}
      [] t = <<"int64">> -> {"PN_CHAR", "PN_BYTE", "PN_SHORT", "PN_INT", "PN_LONG"}
      [] t = <<"uint64">> -> {"PN_CHAR", "PN_UBYTE", "PN_USHORT", "PN_ULONG"}
      [] t = <<"int">> -> {"PN_CHAR", "PN_BYTE", "PN_SHORT", "PN_INT"}
                            \cup (IF intIsLong THEN {"PN_LONG"} ELSE {})
      [] t = <<"uint">> -> {"PN_CHAR", "PN_UBYTE", "PN_USHORT", "PN_UINT"}
                            \cup (IF intIsLong THEN {"PN_ULONG"} ELSE {})
      [] t = <<"Char">> -> {"PN_CHAR"}
      [] t = <<"float32">> -> {"PN_FLOAT"}
      [] t = <<"float64">> -> {"PN_FLOAT", "PN_DOUBLE"}
      [] t \in {<<"string">>, <<"[]", "uint8">>} ->
             {"PN_STRING", "PN_SYMBOL", "PN_BINARY"}
      [] t = <<"Binary">> -> {"PN_BINARY"}
      [] t = <<"Symbol">> -> {"PN_SYMBOL"}
      [] t = <<"time.Time">> -> {"PN_TIMESTAMP"}
      [] t = <<"UUID">> -> {"PN_UUID"}
      [] OTHER -> {}

FixedTargets ==
    {<<"bool">>, <<"int8">>, <<"uint8">>, <<"int16">>, <<"uint16">>, <<"int32">>,
     <<"uint32">>, <<"int64">>, <<"uint64">>, <<"int">>, <<"uint">>, <<"Char">>,
     <<"float32">>, <<"float64">>, <<"string">>, <<"[]", "uint8">>, <<"Binary">>,
     <<"Symbol">>, <<"time.Time">>, <<"UUID">>}

\* time.Unix(0, int64(C.pn_data_get_timestamp(data))*1000)
time_of(x) == i64_mul(x, 1000)

\* *v = T(C.pn_data_get_xxx(data)): the conversions keep the number; a
\* timestamp becomes the time.Time of its UnixNano.
get_fixed(t, node) ==
    GoVal(t, node.n, IF t = <<"time.Time">> THEN time_of(node.b) ELSE node.b, <<>>)

\* getArrayStore: the slice type an array unmarshals to in an interface{}.
getArrayStore(et) ==
    CASE et = "PN_BOOL" -> <<"*", "[]", "bool">>
      [] et = "PN_UBYTE" -> <<"*", "[]", "uint8">>
      [] et = "PN_BYTE" -> <<"*", "[]", "int8">>
      [] et = "PN_USHORT" -> <<"*", "[]", "uint16">>
      [] et = "PN_SHORT" -> <<"*", "[]", "int16">>
      [] et = "PN_UINT" -> <<"*", "[]", "uint32">>
      [] et = "PN_INT" -> <<"*", "[]", "int32">>
      [] et = "PN_CHAR" -> <<"*", "[]", "Char">>
      [] et = "PN_ULONG" -> <<"*", "[]", "uint64">>
      [] et = "PN_LONG" -> <<"*", "[]", "int64">>
      [] et = "PN_FLOAT" -> <<"*", "[]", "float32">>
      [] et = "PN_DOUBLE" -> <<"*", "[]", "float64">>
      [] et = "PN_BINARY" -> <<"*", "[]", "Binary">>
      [] et = "PN_STRING" -> <<"*", "[]", "string">>
      [] et = "PN_SYMBOL" -> <<"*", "[]", "Symbol">>
      [] et = "PN_TIMESTAMP" -> <<"*", "[]", "time.Time">>
      [] et = "PN_UUID" -> <<"*", "[]", "UUID">>
      [] OTHER -> <<"*", "Array">>

\* The type a value of this tag gets in an interface{}.
InterfaceType(type) ==
    CASE type = "PN_BOOL" -> <<"bool">>
      [] type = "PN_UBYTE" -> <<"uint8">>
      [] type = "PN_BYTE" -> <<"int8">>
      [] type = "PN_USHORT" -> <<"uint16">>
      [] type = "PN_SHORT" -> <<"int16">>
      [] type = "PN_UINT" -> <<"uint32">>
      [] type = "PN_INT" -> <<"int32">>
      [] type = "PN_CHAR" -> <<"Char">>
      [] type = "PN_ULONG" -> <<"uint64">>
      [] type = "PN_LONG" -> <<"int64">>
      [] type = "PN_FLOAT" -> <<"float32">>
      [] type = "PN_DOUBLE" -> <<"float64">>
      [] type = "PN_BINARY" -> <<"Binary">>
      [] type = "PN_STRING" -> <<"string">>
      [] type = "PN_SYMBOL" -> <<"Symbol">>
      [] type = "PN_TIMESTAMP" -> <<"time.Time">>
      [] type = "PN_UUID" -> <<"UUID">>
      [] type = "PN_MAP" -> <<"Map">>
      [] type = "PN_LIST" -> <<"List">>
      [] type = "PN_DESCRIBED" -> <<"Described">>
      [] OTHER -> <<>>

\* mapValue.SetMapIndex(key, val): a key already present gets the value.
RECURSIVE SetMapIndex(_, _, _)
SetMapIndex(kids, k, v) ==
    IF Len(kids) < 2 THEN <<k, v>>
    ELSE IF kids[1] = k THEN <<k, v>> \o SubSeq(kids, 3, Len(kids))
    ELSE SubSeq(kids, 1, 2) \o SetMapIndex(SubSeq(kids, 3, Len(kids)), k, v)

\* getMap on a value that is no map: the map is left empty.
getMap_other(type, t) == UOk(GoVal(Elem(t), 0, <<>>, <<>>))

\* getDescribed: the child unmarshalled into a plain target is the second.
described_body_first(node) == node.kids[1]

described_body(node) == node.kids[2]

\* getDescribed, the cursor not moving as expected.
bad_described(type, t) ==
    UPanic(newUnmarshalErrorMsg(type, t, "bad described value encoding"))

\* The value of type t whose children are those unmarshalled in r.
stored(t, r) == IF ~u_ok(r) THEN r ELSE UOk(GoVal(t, 0, <<>>, r.v.kids))

\* The value of type t around the value unmarshalled in r.
wrapped(t, r) == IF ~u_ok(r) THEN r ELSE UOk(GoVal(t, 0, <<>>, <<r.v>>))

\* The value of type t of the two values unmarshalled in a and in b.
paired(t, a, b) ==
    IF ~u_ok(a) THEN a
    ELSE IF ~u_ok(b) THEN b
    ELSE UOk(GoVal(t, 0, <<>>, <<a.v, b.v>>))

\* The element unmarshalled in x before those in rest.
appended(x, rest) ==
    IF ~u_ok(x) THEN x
    ELSE IF ~u_ok(rest) THEN rest
    ELSE UOk(GoVal(<<>>, 0, <<>>, <<x.v>> \o rest.v.kids))

RECURSIVE unmarshal(_, _)
RECURSIVE getInterface(_)
RECURSIVE getMap(_, _)
RECURSIVE getMap_loop(_, _, _, _)
RECURSIVE getMap_pair(_, _, _, _, _, _)
RECURSIVE getSequence(_, _)
RECURSIVE getSequence_loop(_, _)
RECURSIVE getDescribed(_, _)

\* One turn of the loop of getMap: the key k and the value v unmarshalled
\* are set in the map, and the loop goes on.
getMap_pair(nodes, kt, vt, kids, k, v) ==
    IF ~u_ok(k) THEN k
    ELSE IF ~u_ok(v) THEN v
    ELSE getMap_loop(SubSeq(nodes, 3, Len(nodes)), kt, vt,
                     SetMapIndex(kids, k.v, v.v))

\* The loop of getMap over count/2 pairs of children.
getMap_loop(nodes, kt, vt, kids) ==
    IF Len(nodes) < 2 THEN UOk(GoVal(<<>>, 0, <<>>, kids))
    ELSE getMap_pair(nodes, kt, vt, kids,
                     unmarshal(<<"*">> \o kt, nodes[1]),
                     unmarshal(<<"*">> \o vt, nodes[2]))

getMap(t, node) ==
    IF node.type = "PN_MAP"
    THEN stored(Elem(t), getMap_loop(node.kids, Key(Elem(t)), Elem(Elem(t)), <<>>))
    ELSE getMap_other(node.type, t)

\* The loop of getSequence over the children.
getSequence_loop(nodes, et) ==
    IF Len(nodes) = 0 THEN UOk(GoVal(<<>>, 0, <<>>, <<>>))
    ELSE appended(unmarshal(<<"*">> \o et, Head(nodes)),
                  getSequence_loop(Tail(nodes), et))

getSequence(t, node) ==
    IF node.type \notin {"PN_LIST", "PN_ARRAY"}
    THEN UPanic(newUnmarshalError(node.type, t))
    ELSE stored(Elem(t), getSequence_loop(node.kids, Elem(Elem(t))))

getDescribed(t, node) ==
    IF Len(node.kids) < 2 THEN bad_described(node.type, t)
    ELSE IF t = <<"*", "Described">>
    THEN paired(<<"Described">>,
                unmarshal(<<"*", "interface{}">>, node.kids[1]),
                unmarshal(<<"*", "interface{}">>, node.kids[2]))
    ELSE unmarshal(t, described_body(node))

getInterface(node) ==
    CASE node.type \in {"PN_NULL", "PN_INVALID"} -> UOk(Nil)
      [] node.type \in {"PN_MAP", "PN_LIST", "PN_DESCRIBED", "PN_UUID"} ->
             unmarshal(<<"*">> \o InterfaceType(node.type), node)
      [] node.type = "PN_ARRAY" -> unmarshal(getArrayStore(node.et), node)
      [] InterfaceType(node.type) # <<>> ->
             UOk(get_fixed(InterfaceType(node.type), node))
      [] OTHER -> UPanic(newUnmarshalError(node.type, <<"*", "interface{}">>))

AnnotationKeyTypes == {"PN_ULONG", "PN_SYMBOL", "PN_STRING"}

unmarshal(t, node) ==
    IF t # <<"*", "interface{}">> /\ node.type = "PN_DESCRIBED"
    THEN getDescribed(t, node)
    ELSE CASE Kind(t) = "ptr" /\ Elem(t) \in FixedTargets ->
                IF node.type \in allowed(Elem(t)) THEN UOk(get_fixed(Elem(t), node))
                ELSE UPanic(newUnmarshalError(node.type, t))
           [] t = <<"*", "AnnotationKey">> ->
                IF node.type \in AnnotationKeyTypes
                THEN wrapped(<<"AnnotationKey">>,
                             unmarshal(<<"*", "interface{}">>, node))
                ELSE UPanic(newUnmarshalError(node.type, t))
           [] t = <<"*", "interface{}">> -> getInterface(node)
           [] OTHER ->
                IF Kind(t) # "ptr" THEN UPanic(newUnmarshalError(node.type, t))
                ELSE CASE Kind(Elem(t)) = "map" -> getMap(t, node)
                       [] Kind(Elem(t)) = "slice" -> getSequence(t, node)
                       [] OTHER -> UPanic(newUnmarshalError(node.type, t))

(***************************************************************************)
(* Marshal, Unmarshal and decode.                                          *)
(***************************************************************************)
\* A Go error that is no UnmarshalError: fmt.Errorf(...)
Errorf(msg) == [AMQPType |-> "", GoType |-> <<>>, s |-> <<msg>>]

\* Marshal after marshal returned r: the tree built, the bytes
\* pn_data_encode gives for it and the error; crash when the process died.
marshalled(r) ==
    IF m_ok(r)
    THEN [data |-> r.put, bytes |-> pn_data_encode(r.put), err |-> NoErr,
          crash |-> FALSE]
    ELSE [data |-> <<>>, bytes |-> <<>>, err |-> r.err, crash |-> r.crash]

\* Marshal(v, buffer)
go_Marshal(v, ub, order) == marshalled(marshal(v, TRUE, ub, order))

\* decode after pn_data_decode returned r, a negative count of any kind
\* taken for an error.
decoded_strict(bytes, r) ==
    IF Len(bytes) = 0 THEN [n |-> 0, err |-> NoUErr, data |-> <<>>]
    ELSE IF r.n <= 0 THEN [n |-> 0, err |-> Errorf("unmarshal"), data |-> <<>>]
    ELSE [n |-> r.n, err |-> NoUErr, data |-> r.data]

decode_strict(bytes) == decoded_strict(bytes, pn_data_decode(bytes))

\* decode after pn_data_decode returned r: PN_UNDERFLOW is no error.
decoded_count(bytes, r) ==
    IF Len(bytes) = 0 THEN [n |-> 0, err |-> NoUErr, data |-> <<>>]
    ELSE IF r.n = PN_UNDERFLOW THEN [n |-> 0, err |-> NoUErr, data |-> <<>>]
    ELSE IF r.n <= 0 THEN [n |-> 0, err |-> Errorf("unmarshal"), data |-> <<>>]
    ELSE [n |-> r.n, err |-> NoUErr, data |-> r.data]

\* decode(data, bytes): the count of bytes decoded, 0 when they hold no
\* complete value.
decode(bytes) == decoded_count(bytes, pn_data_decode(bytes))

\* The deferred recover of Unmarshal and UnmarshalUnsafe: a panic of
\* unmarshal (u) is returned as the error and the target keeps what it
\* held; n is the count decode gave.
recovered(n, old, u) ==
    IF ~u_ok(u) THEN [n |-> n, err |-> u.err, v |-> old]
    ELSE [n |-> n, err |-> NoUErr, v |-> u.v]

\* Unmarshal after decode returned d.
unmarshalled(t, old, d) ==
    IF d.err # NoUErr THEN [n |-> 0, err |-> d.err, v |-> old]
    ELSE IF d.n = 0 THEN [n |-> 0, err |-> Errorf("not enough data"), v |-> old]
    ELSE recovered(d.n, old, unmarshal(t, d.data[1]))

\* Unmarshal(bytes, v): v points at a value old.  The result is n, err and
\* the value v points at afterwards.
go_Unmarshal(bytes, t, old) == unmarshalled(t, old, decode(bytes))

go_UnmarshalUnsafe(node, t, old) == recovered(0, old, unmarshal(t, node))

(***************************************************************************)
(* The values, targets and trees the calls are made with.                  *)
(***************************************************************************)
Num(t, n) == GoVal(<<t>>, n, <<>>, <<>>)

Text(t, b) == GoVal(<<t>>, 0, b, <<>>)

Kids(t, kids) == GoVal(t, 0, <<>>, kids)

Time(nano) == GoVal(<<"time.Time">>, 0, nano, <<>>)

Str(b) == Text("string", b)

Sym(b) == Text("Symbol", b)

\* Instants, as the int64 of UnixNano(): the epoch, one second and
\* 1 700 000 000 seconds after it, one millisecond before it.
Instants ==
    {I64(0), I64(1000000000), <<0, 0, 42, 54, 254, 156, 151, 23>>, I64(-1000000)}

\* Timestamps on the wire: 0, 1, -1, 1 700 000 000 000, the largest whose
\* thousandfold fits an int64 (9 223 372 036 854 775), the next one, the
\* largest and the smallest int64.
Timestamps ==
    {I64(0), I64(1), I64(-1), <<0, 104, 229, 207, 139, 1, 0, 0>>,
     <<247, 83, 227, 165, 155, 196, 32, 0>>, <<248, 83, 227, 165, 155, 196, 32, 0>>,
     <<255, 255, 255, 255, 255, 255, 255, 127>>, <<0, 0, 0, 0, 0, 0, 0, 128>>}

ScalarValues ==
    {Nil, Num("bool", 1), Num("int8", -1), Num("int16", -1), Num("int32", 70000),
     Num("int64", -1), Num("int", 5), Num("uint8", 255), Num("uint16", 300),
     Num("uint32", 7), Num("uint64", 0), Num("uint", 9), Num("float32", 3),
     Num("float64", 3), Str(<<97, 98>>), GoVal(<<"[]", "uint8">>, 0, <<1, 2>>, <<>>),
     Text("Binary", <<1, 2>>), Sym(<<97, 98>>), Num("Char", 97),
     Text("UUID", [i \in 1..16 |-> i])}
      \cup {Time(nano) : nano \in Instants}

ListOfThree == <<Num("int32", 1), Str(<<120>>), Nil>>

CompositeValues ==
    {Kids(<<"Described">>, <<Sym(<<97>>), Str(<<120>>)>>),
     Kids(<<"Described">>, <<Num("uint64", 115),
                             Kids(<<"Described">>, <<Sym(<<97>>), Num("int32", 1)>>)>>),
     Kids(<<"AnnotationKey">>, <<Sym(<<97>>)>>),
     Kids(<<"AnnotationKey">>, <<Num("uint64", 1)>>),
     Kids(<<"map", "string", "int32">>,
          <<Str(<<97>>), Num("int32", 1), Str(<<98>>), Num("int32", 2)>>),
     Kids(<<"Map">>, <<Str(<<97>>), Num("int32", 1)>>),
     Kids(<<"Map">>, <<Str(<<97>>), Kids(<<"List">>, ListOfThree),
                       Str(<<98>>), Kids(<<"[]", "int32">>,
                                         <<Num("int32", 1), Num("int32", 2),
                                           Num("int32", 3)>>)>>),
     Kids(<<"map", "string", "func">>, <<>>),
     Kids(<<"[]", "interface{}">>, ListOfThree),
     Kids(<<"List">>, ListOfThree),
     Kids(<<"[]", "int32">>, <<Num("int32", 1), Num("int32", 2), Num("int32", 3)>>),
     Kids(<<"[]", "int">>, <<Num("int", 1)>>),
     Kids(<<"[]", "uint">>, <<>>),
     Kids(<<"[]", "string">>, <<Str(<<97>>), Str(<<98>>)>>),
     Kids(<<"[N]", "uint8">>, <<Num("uint8", 1), Num("uint8", 2)>>),
     Kids(<<"[]", "Described">>,
          <<Kids(<<"Described">>, <<Sym(<<97>>), Str(<<120>>)>>)>>),
     Kids(<<"[]", "[]", "int32">>,
          <<Kids(<<"[]", "int32">>, <<Num("int32", 1)>>),
            Kids(<<"[]", "int32">>, <<Num("int32", 2)>>)>>)}

\* The Go types marshal has no conversion for.
ForbiddenTypes ==
    {<<"func">>, <<"chan">>, <<"uintptr">>, <<"complex128">>, <<"struct">>,
     <<"*", "int32">>, <<"unsafe.Pointer">>}

ForbiddenValues ==
    {GoVal(t, 0, <<>>, <<>>) : t \in ForbiddenTypes}
      \cup {Kids(<<"map", "string", "func">>, <<Str(<<97>>), Num("func", 0)>>),
            Kids(<<"map", "chan", "int32">>, <<Num("chan", 0), Num("int32", 1)>>),
            Kids(<<"[]", "interface{}">>, <<Num("int32", 1), Num("func", 0)>>),
            Kids(<<"List">>, <<Num("complex128", 0)>>),
            Kids(<<"[]", "func">>, <<>>),
            Kids(<<"[]", "struct">>, <<Num("struct", 0)>>),
            Kids(<<"[N]", "uintptr">>, <<Num("uintptr", 0)>>),
            Kids(<<"Described">>, <<Sym(<<97>>), Num("func", 0)>>),
            Kids(<<"List">>, <<Kids(<<"Described">>, <<Num("chan", 0), Nil>>)>>)}

Values == ScalarValues \cup CompositeValues \cup ForbiddenValues

Targets ==
    {<<"*">> \o t : t \in FixedTargets}
      \cup {<<"*", "interface{}">>, <<"*", "AnnotationKey">>, <<"*", "Described">>,
            <<"*", "Map">>, <<"*", "List">>, <<"*", "map", "string", "int32">>,
            <<"*", "[]", "int32">>, <<"*", "[]", "interface{}">>,
            <<"*", "[]", "string">>, <<"*", "struct">>, <<"int32">>, <<"Map">>}

\* The targets strict prefixes of an encoding are unmarshalled into.
PrefixTargets == {<<"*", "interface{}">>, <<"*", "int32">>}

\* Trees a caller hands to UnmarshalUnsafe.
Trees ==
    {Scalar("PN_BYTE", -1), Scalar("PN_SHORT", -1), Scalar("PN_INT", 70000),
     Scalar("PN_LONG", -1), Scalar("PN_UBYTE", 255), Scalar("PN_USHORT", 300),
     Scalar("PN_UINT", 7), Scalar("PN_ULONG", 9), Scalar("PN_CHAR", 97),
     Scalar("PN_BOOL", 1), Scalar("PN_FLOAT", 3), Scalar("PN_DOUBLE", 3),
     Scalar("PN_NULL", 0), Bytes("PN_STRING", <<97>>), Bytes("PN_SYMBOL", <<97>>),
     Bytes("PN_BINARY", <<1, 2>>), Bytes("PN_UUID", [i \in 1..16 |-> i]),
     Composite("PN_MAP", "", <<Bytes("PN_STRING", <<97>>), Scalar("PN_INT", 1)>>),
     Composite("PN_LIST", "", <<Scalar("PN_INT", 1), Bytes("PN_STRING", <<120>>)>>),
     Composite("PN_ARRAY", "PN_INT", <<Scalar("PN_INT", 1), Scalar("PN_INT", 2)>>),
     Composite("PN_DESCRIBED", "", <<Bytes("PN_SYMBOL", <<97>>), Scalar("PN_INT", 1)>>),
     Composite("PN_DESCRIBED", "",
               <<Scalar("PN_ULONG", 115),
                 Composite("PN_DESCRIBED", "",
                           <<Bytes("PN_SYMBOL", <<97>>),
                             Composite("PN_LIST", "", <<Scalar("PN_INT", 1)>>)>>)>>),
     Composite("PN_DESCRIBED", "", <<>>),
     Composite("PN_DESCRIBED", "", <<Bytes("PN_SYMBOL", <<97>>)>>)}
      \cup {Bytes("PN_TIMESTAMP", x) : x \in Timestamps}

\* What the C++ callers assign to an annotation_key.
KeyNumbers == {0, 1, 2, 255, 70000}

KeyTexts == {<<>>, <<97>>, <<97, 98>>, <<120, 45, 111, 112, 116>>}

(***************************************************************************)
(* The cursor of the data object: the enters of a call of marshal or       *)
(* unmarshal that no exit has matched when the call returns or panics.     *)
(***************************************************************************)
RECURSIVE marshal_depth(_, _, _)
RECURSIVE children_depth(_, _, _)

\* The for loops of marshal: the loop ends at the first child that panics,
\* with the cursor where that child left it.
children_depth(vals, ub, order) ==
    IF Len(vals) = 0 THEN 0
    ELSE IF ~m_ok(marshal(Head(vals), TRUE, ub, order))
    THEN marshal_depth(Head(vals), ub, order)
    ELSE children_depth(Tail(vals), ub, order)

\* marshal(i, data), data != nil.  case Described: enter, the two children,
\* exit - a panic of a child skips the exit.  Map, slice and array: enter,
\* defer exit, the children - the exit also runs on a panic.
marshal_depth(v, ub, order) ==
    CASE v.t = <<"Described">> ->
            IF m_ok(marshal_children(v.kids, TRUE, ub, order)) THEN 0
            ELSE 1 + children_depth(v.kids, ub, order)
      [] v.t = <<"AnnotationKey">> -> marshal_depth(v.kids[1], ub, order)
      [] v.t \notin {<<"Described">>, <<"AnnotationKey">>} /\ Kind(v.t) = "map" ->
            children_depth(MapKeys(v.kids, order), ub, order)
      [] /\ Kind(v.t) \in {"slice", "array"}
         /\ v.t \notin {<<"[]", "uint8">>, <<"Binary">>, <<"UUID">>} ->
            IF Kind(Elem(v.t)) # "interface"
                 /\ ~m_ok(marshal(Zero(Elem(v.t)), FALSE, ub, order))
            THEN 0
            ELSE children_depth(v.kids, ub, order)
      [] OTHER -> 0

RECURSIVE unmarshal_depth(_, _)
RECURSIVE getMap_depth(_, _, _)
RECURSIVE getSequence_depth(_, _)

\* The loop of getMap: it ends at the first key or value whose unmarshal
\* panics, with the cursor where that unmarshal left it.
getMap_depth(nodes, kt, vt) ==
    IF Len(nodes) < 2 THEN 0
    ELSE IF ~u_ok(unmarshal(<<"*">> \o kt, nodes[1]))
    THEN unmarshal_depth(<<"*">> \o kt, nodes[1])
    ELSE IF ~u_ok(unmarshal(<<"*">> \o vt, nodes[2]))
    THEN unmarshal_depth(<<"*">> \o vt, nodes[2])
    ELSE getMap_depth(SubSeq(nodes, 3, Len(nodes)), kt, vt)

\* The loop of getSequence, likewise.
getSequence_depth(nodes, et) ==
    IF Len(nodes) = 0 THEN 0
    ELSE IF ~u_ok(unmarshal(<<"*">> \o et, Head(nodes)))
    THEN unmarshal_depth(<<"*">> \o et, Head(nodes))
    ELSE getSequence_depth(Tail(nodes), et)

\* unmarshal(v, data).  getDescribed and getMap: enter, defer exit - the
\* exit also runs on a panic.  getSequence: enter, the loop, exit - a panic
\* in the loop skips the exit.
unmarshal_depth(t, node) ==
    CASE t # <<"*", "interface{}">> /\ node.type = "PN_DESCRIBED" ->
            IF Len(node.kids) < 2 THEN 0
            ELSE IF t # <<"*", "Described">>
            THEN unmarshal_depth(t, described_body(node))
            ELSE IF ~u_ok(unmarshal(<<"*", "interface{}">>, node.kids[1]))
            THEN unmarshal_depth(<<"*", "interface{}">>, node.kids[1])
            ELSE unmarshal_depth(<<"*", "interface{}">>, node.kids[2])
      [] t = <<"*", "interface{}">> /\ node.type = "PN_ARRAY" ->
            unmarshal_depth(getArrayStore(node.et), node)
      [] t = <<"*", "interface{}">>
           /\ node.type \in {"PN_MAP", "PN_LIST", "PN_DESCRIBED"} ->
            unmarshal_depth(<<"*">> \o InterfaceType(node.type), node)
      [] /\ node.type # "PN_DESCRIBED"
         /\ Kind(t) = "ptr"
         /\ Elem(t) \notin FixedTargets
         /\ t \notin {<<"*", "interface{}">>, <<"*", "AnnotationKey">>}
         /\ Kind(Elem(t)) = "map"
         /\ node.type = "PN_MAP" ->
            getMap_depth(node.kids, Key(Elem(t)), Elem(Elem(t)))
      [] /\ node.type \in {"PN_LIST", "PN_ARRAY"}
         /\ Kind(t) = "ptr"
         /\ Elem(t) \notin FixedTargets
         /\ t \notin {<<"*", "interface{}">>, <<"*", "AnnotationKey">>}
         /\ Kind(Elem(t)) = "slice" ->
            IF u_ok(getSequence_loop(node.kids, Elem(Elem(t)))) THEN 0
            ELSE 1 + getSequence_depth(node.kids, Elem(Elem(t)))
      [] OTHER -> 0

(***************************************************************************)
(* The Decoder: a reader and a buffer of the bytes read and not yet        *)
(* decoded.                                                                *)
(***************************************************************************)
minDecode == 1024

io_EOF == Errorf("EOF")

\* The buffer emptied, whatever n is: d.buffer.Reset()
buffer_Reset(buffer, n) == <<>>

\* d.buffer.Next(n): the buffer without its first n bytes
buffer_Next(buffer, n) == Drop(buffer, n)

\* more(): the count of bytes the LimitReader lets through
readSize(buffer) == IF Len(buffer) > minDecode THEN Len(buffer) ELSE minDecode

\* more(): the error returned after ReadFrom read nread bytes
more_err(nread) == IF nread = 0 THEN io_EOF ELSE NoUErr

\* Buffered(): the bytes read and not yet decoded
Buffered(dec) == dec.buffer

\* Decode returns err with the buffer as it is.
Decode_failed(dec, err) == [dec EXCEPT !.pc = "idle", !.err = err]

\* Decode after unmarshal(v, data) returned or panicked with u, n the count
\* decode gave: a panic is recovered into err before d.buffer.Next(n).
Decode_unmarshalled(dec, n, u) ==
    IF ~u_ok(u) THEN Decode_failed(dec, u.err)
    ELSE [dec EXCEPT !.pc = "idle", !.err = NoUErr,
                     !.buffer = buffer_Next(dec.buffer, n),
                     !.got = Append(@, [t |-> dec.t, v |-> u.v])]

\* One turn of the loop of Decode after decode(data, d.buffer.Bytes())
\* returned r.
Decode_decoded(dec, r) ==
    IF r.err # NoUErr THEN Decode_failed(dec, r.err)
    ELSE IF r.n = 0
    THEN [dec EXCEPT !.pc = "more", !.limit = readSize(dec.buffer), !.nread = 0]
    ELSE Decode_unmarshalled(dec, r.n, unmarshal(dec.t, r.data[1]))

\* The bytes a writer puts on the stream for the values vals.
RECURSIVE written(_)
written(vals) ==
    IF Len(vals) = 0 THEN <<>>
    ELSE go_Marshal(vals[1], "return", "fwd").bytes \o written(Tail(vals))

NoCodec ==
    [op |-> "", v |-> Nil, ub |-> "", order |-> "", data |-> <<>>, bytes |-> <<>>,
     merr |-> NoErr, crash |-> FALSE, k |-> 0, t |-> <<>>, n |-> 0, uerr |-> NoUErr,
     prev |-> Nil, out |-> Nil, data2 |-> <<>>, bytes2 |-> <<>>,
     nil |-> FALSE, tag |-> "", depth |-> 0]

\* annotation_key() { scalar_ = uint64_t(0); }
NoKey == Scalar("PN_ULONG", 0)

\* No Decoder made yet.
NoDecoder ==
    [pc |-> "none", vals |-> <<>>, stream |-> <<>>, reader |-> <<>>,
     buffer |-> <<>>, t |-> <<>>, limit |-> 0, nread |-> 0, merr |-> NoUErr,
     err |-> NoUErr, got |-> <<>>]

(***************************************************************************)
(* State.                                                                  *)
(***************************************************************************)
VARIABLES
    maps,      \* maps[m][s]: the member map of section s of message m
    impl_msg,  \* impl_msg[m]: the pn_message_t of message m
    str,       \* the caller's std::string that encode writes to
    tried,     \* the sizes the last encode resized the string to
    last,      \* the last operation and what it acted on
    nops,      \* operations performed so far
    nwrites,   \* writes into a host map performed so far
    go,        \* the last Go Marshal call: buffer length, sizes tried, result
    codec,     \* the last call into Go's marshal/unmarshal: inputs and results
    scalar_,   \* the scalar_ member of a C++ annotation_key
    decoder    \* a Go Decoder: its reader, its buffer and the Decode call running

vars == <<maps, impl_msg, str, tried, last, nops, nwrites, go, codec, scalar_,
          decoder>>

\* The state of one section: which of its two representations hold entries.
StateOf(d, map) ==
    CASE data_empty(d) /\ map_empty(map) -> "EMPTY"
      [] data_empty(d) /\ ~map_empty(map) -> "AUTH-MAP"
      [] ~data_empty(d) /\ map_empty(map) -> "AUTH-WIRE"
      [] OTHER -> "BOTH"

SecState(m, s) == StateOf(impl_msg[m][s], maps[m][s])

\* What the accessor of section s returns on a message with these members.
ViewOf(mp, msg, s) == accessor(mp, msg, s).maps[s]

\* What the accessor of section s of message m returns.
View(m, s) == ViewOf(maps[m], impl_msg[m], s)

\* The entries of a host map and of a subtree, as sets of (key, value).
Entries(map) == {<<k, map[k]>> : k \in DOMAIN map}

TreeEntries(d) == {<<d[2 * i - 1], d[2 * i]>> : i \in 1..(Len(d) \div 2)}

\* The children the frame of section s holds in well-formed bytes.
FrameTree(bytes, s) == parse(bytes, pn_message).msg[s]

NoLast == [op |-> "", m |-> "", pre |-> "", threw |-> FALSE]
NoGo == [len |-> 0, required |-> 0, tried |-> <<>>, out |-> 0]

Init ==
    /\ maps = [m \in Msgs |-> NoMaps]
    /\ impl_msg = [m \in Msgs |-> pn_message]
    /\ str = [bytes |-> <<>>, size |-> 0, cap |-> 0]
    /\ tried = <<>>
    /\ last = NoLast
    /\ nops = 0
    /\ nwrites = 0
    /\ go = NoGo
    /\ codec = NoCodec
    /\ scalar_ = NoKey
    /\ decoder = NoDecoder

\* The state of message m as a whole: "BOTH" when a section has entries in
\* both representations, else "AUTH-MAP" when a host map has entries, else
\* "AUTH-WIRE" when a subtree has, else "EMPTY".
MsgState(m) ==
    LET st == {SecState(m, s) : s \in Sec}
    IN  CASE "BOTH" \in st -> "BOTH"
          [] "BOTH" \notin st /\ "AUTH-MAP" \in st -> "AUTH-MAP"
          [] st \subseteq {"AUTH-WIRE", "EMPTY"} /\ "AUTH-WIRE" \in st -> "AUTH-WIRE"
          [] OTHER -> "EMPTY"

\* One operation: op is its name, m the message it acted on, pre the state
\* of the section or message it met, threw whether it raised an error.
Step(op, m, pre, threw) ==
    /\ nops < MaxOps
    /\ nops' = nops + 1
    /\ last' = [op |-> op, m |-> m, pre |-> pre, threw |-> threw]

\* A write into a host map.
WriteStep(op, pre) ==
    /\ nwrites < MaxWrites
    /\ nwrites' = nwrites + 1
    /\ Step(op, "", pre, FALSE)

\* const auto& x = m.properties();  (or annotations(), instructions())
Access(m, s) ==
    LET r == accessor(maps[m], impl_msg[m], s)
    IN  /\ Step("access", m, SecState(m, s), FALSE)
        /\ maps' = [maps EXCEPT ![m] = r.maps]
        /\ impl_msg' = [impl_msg EXCEPT ![m] = r.msg]
        /\ UNCHANGED <<str, tried, nwrites, go, codec, scalar_, decoder>>

\* m.properties()[k] = v;
Put(m, s, k, v) ==
    LET r == accessor(maps[m], impl_msg[m], s)
    IN  /\ WriteStep("put", "")
        /\ maps' = [maps EXCEPT ![m] = [r.maps EXCEPT ![s] = map_set(@, k, v)]]
        /\ impl_msg' = [impl_msg EXCEPT ![m] = r.msg]
        /\ UNCHANGED <<str, tried, go, codec, scalar_, decoder>>

\* m.properties().erase(k);
Erase(m, s, k) ==
    LET r == accessor(maps[m], impl_msg[m], s)
    IN  /\ k \in DOMAIN r.maps[s]
        /\ Step("erase", "", "", FALSE)
        /\ maps' = [maps EXCEPT ![m] = [r.maps EXCEPT ![s] = map_erase(@, k)]]
        /\ impl_msg' = [impl_msg EXCEPT ![m] = r.msg]
        /\ UNCHANGED <<str, tried, nwrites, go, codec, scalar_, decoder>>

\* ref[k] = v; where ref is a reference an accessor returned earlier (the
\* accessors return the member map itself, so a reference taken right after
\* construction stays usable for the life of the message).  In every state
\* but AUTH-WIRE get_map changes nothing and this write is the write of
\* Put, so only the AUTH-WIRE case is a step of its own.
WriteRef(m, s, k, v) ==
    /\ SecState(m, s) = "AUTH-WIRE"
    /\ WriteStep("writeref", SecState(m, s))
    /\ maps' = [maps EXCEPT ![m][s] = map_set(@, k, v)]
    /\ UNCHANGED <<impl_msg, str, tried, go, codec, scalar_, decoder>>

\* m.encode(str);
Encode(m) ==
    LET r == message_encode(maps[m], impl_msg[m], str.cap)
    IN  /\ Step("encode", m, MsgState(m), FALSE)
        /\ maps' = [maps EXCEPT ![m] = r.maps]
        /\ impl_msg' = [impl_msg EXCEPT ![m] = r.msg]
        /\ str' = r.s
        /\ tried' = r.tried
        /\ UNCHANGED <<nwrites, go, codec, scalar_, decoder>>

\* The inputs decode is given: the bytes of the last encode, or those bytes
\* with the last one missing.
DecodeInputs ==
    {str.bytes} \cup
      (IF Len(str.bytes) = 0 THEN {} ELSE {SubSeq(str.bytes, 1, Len(str.bytes) - 1)})

\* m.decode(bytes);
Decode(m, bytes) ==
    LET r == message_decode(maps[m], impl_msg[m], bytes)
    IN  /\ Step("decode", m, MsgState(m), r.threw)
        /\ maps' = [maps EXCEPT ![m] = r.maps]
        /\ impl_msg' = [impl_msg EXCEPT ![m] = r.msg]
        /\ UNCHANGED <<str, tried, nwrites, go, codec, scalar_, decoder>>

\* m.clear();
Clear(m) ==
    LET r == message_clear(maps[m], impl_msg[m])
    IN  /\ Step("clear", "", "", FALSE)
        /\ maps' = [maps EXCEPT ![m] = r.maps]
        /\ impl_msg' = [impl_msg EXCEPT ![m] = r.msg]
        /\ UNCHANGED <<str, tried, nwrites, go, codec, scalar_, decoder>>

\* m = n;  (also message(const message&)): n.encode(data) into a local
\* string, then m.decode(data).  (m = m is Encode(m) then Decode(m, bytes).)
message_assign(maps_m, msg_m, maps_n, msg_n) ==
    LET e == message_encode(maps_n, msg_n, 0)
        d == message_decode(maps_m, msg_m, e.s.bytes)
    IN  [maps_n |-> e.maps, msg_n |-> e.msg,
         maps_m |-> d.maps, msg_m |-> d.msg, threw |-> d.threw]

Assign(m, n) ==
    LET r == message_assign(maps[m], impl_msg[m], maps[n], impl_msg[n])
    IN  /\ m # n
        /\ Step("assign", "", "", r.threw)
        /\ maps' = [[maps EXCEPT ![n] = r.maps_n] EXCEPT ![m] = r.maps_m]
        /\ impl_msg' = [[impl_msg EXCEPT ![n] = r.msg_n] EXCEPT ![m] = r.msg_m]
        /\ UNCHANGED <<str, tried, nwrites, go, codec, scalar_, decoder>>

\* m.swap(n);  std::swap(impl_.msg, n.impl_.msg).  a.swap(b) and b.swap(a)
\* are the same exchange.
Swap(m, n) ==
    /\ m = "a" /\ n = "b"
    /\ Step("swap", "", "", FALSE)
    /\ impl_msg' = [impl_msg EXCEPT ![m] = impl_msg[n], ![n] = impl_msg[m]]
    /\ UNCHANGED <<maps, str, tried, nwrites, go, codec, scalar_, decoder>>

Next ==
    \/ \E m \in Msgs, s \in Sec : Access(m, s)
    \/ \E m \in Msgs, s \in Sec, k \in Keys, v \in Vals : Put(m, s, k, v)
    \/ \E m \in Msgs, s \in Sec, k \in Keys : Erase(m, s, k)
    \/ \E m \in Msgs, s \in Sec, k \in Keys, v \in Vals : WriteRef(m, s, k, v)
    \/ \E m \in Msgs : Encode(m)
    \/ \E m \in Msgs : \E bytes \in DecodeInputs : Decode(m, bytes)
    \/ \E m \in Msgs : Clear(m)
    \/ \E m \in Msgs, n \in Msgs : Assign(m, n)
    \/ \E m \in Msgs, n \in Msgs : Swap(m, n)

Spec == Init /\ [][Next]_vars

(***************************************************************************)
(* Buffer growth: message::encode on messages with a body, into strings of *)
(* any capacity, and Go's Marshal / encodeGrow.                            *)
(***************************************************************************)
\* m.body() = amqp_binary(n bytes);
SetBody(m, n) ==
    /\ Step("body", "", "", FALSE)
    /\ impl_msg' = [impl_msg EXCEPT ![m].body = n]
    /\ UNCHANGED <<maps, str, tried, nwrites, go, codec, scalar_, decoder>>

\* The caller takes another string, of capacity cap, for the next encode.
NewString(cap) ==
    /\ cap # str.cap
    /\ Step("string", "", "", FALSE)
    /\ str' = [bytes |-> <<>>, size |-> 0, cap |-> cap]
    /\ UNCHANGED <<maps, impl_msg, tried, nwrites, go, codec, scalar_, decoder>>

\* The encode closure of Marshal on a buffer of length len, the marshalled
\* data taking required bytes: pn_data_encode returns PN_OVERFLOW when they
\* do not fit, else their count n, and the closure returns buf[:n].
go_encode(len, required) ==
    IF required > len THEN [buf |-> len, err |-> "overflow"]
    ELSE [buf |-> required, err |-> ""]

\* if buffer == nil || len(buffer) == 0 { buffer = make([]byte, minEncode) }
encodeGrow_first(len) == IF len = 0 THEN minEncode ELSE len

\* buffer = make([]byte, 2*len(buffer))
encodeGrow_next_add(len) == len + minEncode

encodeGrow_next(len) == 2 * len

\* The for loop of encodeGrow: the buffer lengths encode is called with.
RECURSIVE encodeGrow_loop(_, _)
encodeGrow_loop(len, required) ==
    IF go_encode(len, required).err = "overflow"
    THEN <<len>> \o encodeGrow_loop(encodeGrow_next(len), required)
    ELSE <<len>>

\* encodeGrow(buffer, encode): the lengths tried and the returned buffer.
encodeGrow(len, required) ==
    LET lens == encodeGrow_loop(encodeGrow_first(len), required)
        r == go_encode(lens[Len(lens)], required)
    IN  [len |-> len, required |-> required, tried |-> lens, out |-> r.buf]

\* Marshal(v, buffer), buffer of length len, v marshalling to required bytes.
Marshal(len, required) ==
    /\ Step("marshal", "", "", FALSE)
    /\ go' = encodeGrow(len, required)
    /\ UNCHANGED <<maps, impl_msg, str, tried, nwrites, codec, scalar_, decoder>>

\* message::encode on message a, with a body and one written section.
NextGrow ==
    \/ \E n \in BodyLens : SetBody("a", n)
    \/ \E cap \in Caps : NewString(cap)
    \/ \E k \in Keys, v \in Vals : Put("a", "properties", k, v)
    \/ Encode("a")

SpecGrow == Init /\ [][NextGrow]_vars

\* Go's Marshal.
NextGo == \E len \in GoLens, required \in GoSizes : Marshal(len, required)

SpecGo == Init /\ [][NextGo]_vars

(***************************************************************************)
(* The claims.                                                             *)
(***************************************************************************)

\* C1: after any sequence of message operations, no section has entries in
\* both its host map and its subtree, and the two never hold the same entry.
C1_OneAuthority ==
    \A m \in Msgs, s \in Sec :
        /\ map_empty(maps[m][s]) \/ data_empty(impl_msg[m][s])
        /\ Entries(maps[m][s]) \cap TreeEntries(impl_msg[m][s]) = {}

\* C2: clear() leaves every section EMPTY: host map and subtree are empty
\* and the accessor returns an empty map.
C2_ClearWipes ==
    [][\A m \in Msgs : Clear(m) =>
          \A s \in Sec :
              /\ map_empty(maps'[m][s])
              /\ data_empty(impl_msg'[m][s])
              /\ map_empty(ViewOf(maps'[m], impl_msg'[m], s))]_vars

\* C3: encode moves every AUTH-MAP section into its subtree and clears the
\* host map, leaves a section in another state as it was, and the bytes it
\* emits hold exactly the entries the accessor showed just before.
C3_EncodePutPhase ==
    [][\A m \in Msgs : Encode(m) =>
          \A s \in Sec :
              /\ IF SecState(m, s) = "AUTH-MAP"
                 THEN /\ TreeEntries(impl_msg'[m][s]) = Entries(maps[m][s])
                      /\ map_empty(maps'[m][s])
                 ELSE /\ maps'[m][s] = maps[m][s]
                      /\ impl_msg'[m][s] = impl_msg[m][s]
              /\ TreeEntries(FrameTree(str'.bytes, s)) = Entries(View(m, s))]_vars

\* C4: an accessor called on an AUTH-WIRE section decodes the subtree into
\* the host map and clears the subtree, the map then holding exactly the
\* entries the subtree held; in every other state it changes neither, and
\* it never touches another section or message.
C4_AccessorDecodes ==
    [][\A m \in Msgs, s \in Sec : Access(m, s) =>
          /\ IF SecState(m, s) = "AUTH-WIRE"
             THEN /\ Entries(maps'[m][s]) = TreeEntries(impl_msg[m][s])
                  /\ data_empty(impl_msg'[m][s])
                  /\ ~map_empty(maps'[m][s])
             ELSE /\ maps'[m][s] = maps[m][s]
                  /\ impl_msg'[m][s] = impl_msg[m][s]
          /\ \A n \in Msgs, x \in Sec :
                 <<n, x>> # <<m, s>> =>
                     /\ maps'[n][x] = maps[n][x]
                     /\ impl_msg'[n][x] = impl_msg[n][x]]_vars

C4_Witness ==
    /\ last.op = "access"
    /\ last.pre = "AUTH-WIRE"
    /\ \E s \in Sec :
           /\ SecState(last.m, s) = "AUTH-MAP"
           /\ DOMAIN maps[last.m][s] = Keys

\* C5: after a successful decode every host map of the message is empty, a
\* section is AUTH-WIRE when the bytes carried entries for it and EMPTY
\* otherwise, and the accessors show the entries of the bytes and nothing
\* of the message's previous content.
C5_DecodeReplaces ==
    [][\A m \in Msgs : \A bytes \in DecodeInputs :
          Decode(m, bytes) /\ ~last'.threw =>
              \A s \in Sec :
                  /\ map_empty(maps'[m][s])
                  /\ StateOf(impl_msg'[m][s], maps'[m][s]) =
                        IF TreeEntries(FrameTree(bytes, s)) # {}
                        THEN "AUTH-WIRE" ELSE "EMPTY"
                  /\ Entries(ViewOf(maps'[m], impl_msg'[m], s)) =
                        TreeEntries(FrameTree(bytes, s))]_vars

\* A decode into a message whose host maps held entries, of bytes that carry
\* other entries than the message held.
C5_Witness ==
    /\ last.op = "decode"
    /\ ~last.threw
    /\ last.pre = "AUTH-MAP"
    /\ MsgState(last.m) = "AUTH-WIRE"
    /\ \E s \in Sec : SecState(last.m, s) = "EMPTY" /\ Len(str.bytes) > 0

\* C6: entries written through the host accessors of a message come back
\* through the same accessors of a fresh message that decodes the bytes the
\* first one encodes.
C6_RoundTrip ==
    [][\A m \in Msgs :
          Encode(m) /\ (\A s \in Sec : data_empty(impl_msg[m][s])) =>
              LET d == message_decode(NoMaps, pn_message, str'.bytes)
              IN  /\ ~d.threw
                  /\ \A s \in Sec : ViewOf(d.maps, d.msg, s) = maps[m][s]]_vars

\* The fresh message b has decoded the bytes of a and shows x = 1, y = 2 in
\* its annotations.
C6_Witness ==
    /\ last.op = "decode"
    /\ last.pre = "EMPTY"
    /\ ~last.threw
    /\ View(last.m, "annotations") = [k \in Keys |-> IF k = "x" THEN 1 ELSE 2]
    /\ \E n \in Msgs \ {last.m} : MsgState(n) = "AUTH-WIRE"

\* C7: after m = n every section read through m's accessors equals the same
\* section read through n's, and n's accessors show what they showed before.
C7_AssignCopies ==
    [][\A m \in Msgs, n \in Msgs : Assign(m, n) =>
          \A s \in Sec :
              /\ ViewOf(maps'[m], impl_msg'[m], s) = ViewOf(maps'[n], impl_msg'[n], s)
              /\ ViewOf(maps'[n], impl_msg'[n], s) = View(n, s)]_vars

\* C8: decode of malformed bytes (an encoding cut short) throws, and leaves
\* every host map and every subtree of the message empty.
C8_DecodeMalformed ==
    [][\A m \in Msgs : \A bytes \in DecodeInputs :
          Decode(m, bytes) =>
              /\ (bytes # str.bytes => last'.threw)
              /\ last'.threw =>
                     \A s \in Sec :
                         /\ map_empty(maps'[m][s])
                         /\ data_empty(impl_msg'[m][s])
                         /\ map_empty(ViewOf(maps'[m], impl_msg'[m], s))]_vars

\* A decode that threw, on a message that held entries in a host map and in
\* a subtree.
C8_Witness ==
    /\ last.op = "decode"
    /\ last.threw
    /\ last.pre = "BOTH"
    /\ MsgState(last.m) = "EMPTY"

\* The sizes seq start at first, each one too small for need bytes is
\* followed by its double, and the last one holds need bytes.
Ladder(seq, first, need) ==
    /\ Len(seq) >= 1
    /\ seq[1] = first
    /\ \A i \in 1..(Len(seq) - 1) : seq[i] < need /\ seq[i + 1] = 2 * seq[i]
    /\ seq[Len(seq)] >= need

\* The bytes the encoding of a message takes, its sections holding the
\* entries e[s] and its body n bytes: two per frame header, one per key
\* and per value, and the body's.
EncodedCount(e, n) ==
    LET sec(s) == IF e[s] = {} THEN 0 ELSE 2 + 2 * Cardinality(e[s])
    IN  sec("properties") + sec("annotations") + sec("instructions")
          + (IF n = 0 THEN 0 ELSE 2 + n)

\* C9 (as claimed): every encode into a caller's string tries the sizes 512,
\* 1024, 2048, ... up to the first that holds the message, and leaves the
\* string with the encoded byte count as its size.
C9_StartsAt512 ==
    last.op = "encode" =>
        /\ Ladder(tried, 512, str.size)
        /\ str.size = EncodedCount([s \in Sec |-> Entries(View(last.m, s))],
                                   impl_msg[last.m].body)

\* C9 (amended): the first size is the capacity of the caller's string, or
\* 512 when the capacity is below 512; from there the size doubles after
\* every overflow up to the first that holds the message; the string is left
\* with the encoded byte count as its size.  A message with a 10000-byte
\* body put into a string of capacity at most 512 tries exactly 512, 1024,
\* 2048, 4096, 8192, 16384.
C9_GrowsFromCapacity ==
    [][\A m \in Msgs : Encode(m) =>
          LET need == EncodedCount([s \in Sec |-> Entries(View(m, s))],
                                   impl_msg[m].body)
          IN  /\ Ladder(tried', IF str.cap < 512 THEN 512 ELSE str.cap, need)
              /\ str'.size = need
              /\ str'.cap >= tried'[Len(tried')]
              /\ (impl_msg[m].body = 10000 /\ str.cap <= 512) =>
                     tried' = <<512, 1024, 2048, 4096, 8192, 16384>>]_vars

C9_Witness ==
    /\ last.op = "encode"
    /\ impl_msg[last.m].body = 10000
    /\ tried = <<512, 1024, 2048, 4096, 8192, 16384>>
    /\ str.size = 10002

\* C10: encodeGrow starts with the caller's buffer, or one of 256 bytes when
\* that is nil or empty; every length that overflows is followed by twice
\* that length; the last length holds the encoding, is at most twice the
\* encoded size when an attempt overflowed, and the buffer returned has the
\* encoded size as its length.
C10_EncodeGrow ==
    last.op = "marshal" =>
        /\ Ladder(go.tried, IF go.len = 0 THEN 256 ELSE go.len, go.required)
        /\ Len(go.tried) > 1 => go.tried[Len(go.tried)] <= 2 * go.required
        /\ go.out = go.required

C10_Witness ==
    /\ last.op = "marshal"
    /\ go.len = 0
    /\ go.required = 600
    /\ go.tried = <<256, 512, 1024>>
    /\ go.out = 600


(***************************************************************************)
(* Go's Marshal and Unmarshal, called with the values, targets and trees   *)
(* above.  The calls share no state, so a behaviour is one exchange: a     *)
(* Marshal or an UnmarshalUnsafe, an Unmarshal of the bytes marshalled,    *)
(* and a Marshal of the value unmarshalled.                                *)
(***************************************************************************)
UBOutcomes == {"crash", "return"}

MapOrders == {"fwd", "rev"}

\* The value a target points at before the call: the zero value of its type.
OldValue(t) == IF Kind(t) = "ptr" THEN Zero(Elem(t)) ELSE Zero(t)

\* The exchange after Marshal(v, nil) returned r.
Marshalled(v, ub, order, r) ==
    [NoCodec EXCEPT !.op = "Marshal", !.v = v, !.ub = ub, !.order = order,
                    !.data = r.data, !.bytes = r.bytes, !.merr = r.err,
                    !.crash = r.crash]

\* The exchange c after Unmarshal or UnmarshalUnsafe (op) returned r.
Returned(c, op, k, t, r) ==
    [c EXCEPT !.op = op, !.k = k, !.t = t, !.n = r.n, !.uerr = r.err,
              !.prev = OldValue(t), !.out = r.v]

\* The exchange c after the second Marshal returned r.
Remarshalled(c, r) ==
    [c EXCEPT !.op = "Remarshal", !.data2 = r.data, !.bytes2 = r.bytes,
              !.merr = r.err, !.crash = r.crash]

\* The exchange after marshal(v, data) in MarshalUnsafe returned or
\* panicked with r, the cursor depth nested deeper than before.
MarshalledUnsafe(v, data, ub, order, r, depth) ==
    [NoCodec EXCEPT !.op = "MarshalUnsafe", !.v = v, !.nil = ~data, !.ub = ub,
                    !.order = order, !.tag = r.tag, !.data = r.put,
                    !.merr = r.err, !.crash = r.crash, !.depth = depth]

\* out, err := Marshal(v, nil)
GoMarshal(v, ub, order) ==
    /\ codec.op = ""
    /\ Step("Marshal", "", "", FALSE)
    /\ codec' = Marshalled(v, ub, order, go_Marshal(v, ub, order))
    /\ UNCHANGED <<maps, impl_msg, str, tried, nwrites, go, scalar_, decoder>>

\* n, err := Unmarshal(bytes[:k], v) on the bytes the last Marshal returned.
GoUnmarshal(k, t) ==
    /\ codec.op = "Marshal"
    /\ Len(codec.bytes) > 0
    /\ k \in 0..Len(codec.bytes)
    /\ k = Len(codec.bytes) \/ t \in PrefixTargets
    /\ Step("Unmarshal", "", "", FALSE)
    /\ codec' = Returned(codec, "Unmarshal", k, t,
                         go_Unmarshal(SubSeq(codec.bytes, 1, k), t, OldValue(t)))
    /\ UNCHANGED <<maps, impl_msg, str, tried, nwrites, go, scalar_, decoder>>

\* err := UnmarshalUnsafe(data, v), the cursor of data at the node.
GoUnmarshalUnsafe(node, t) ==
    /\ codec.op = ""
    /\ Step("UnmarshalUnsafe", "", "", FALSE)
    /\ codec' = Returned([NoCodec EXCEPT !.data = <<node>>,
                                          !.depth = unmarshal_depth(t, node)],
                         "UnmarshalUnsafe", 0, t,
                         go_UnmarshalUnsafe(node, t, OldValue(t)))
    /\ UNCHANGED <<maps, impl_msg, str, tried, nwrites, go, scalar_, decoder>>

\* err := MarshalUnsafe(v, pn_data): marshal(v, data) on the data object of
\* the caller, or with data == nil, as marshal calls itself for the element
\* tag of an array.
GoMarshalUnsafe(v, data, ub, order) ==
    /\ codec.op = ""
    /\ Step("MarshalUnsafe", "", "", FALSE)
    /\ codec' = MarshalledUnsafe(v, data, ub, order, marshal(v, data, ub, order),
                                 IF data THEN marshal_depth(v, ub, order) ELSE 0)
    /\ UNCHANGED <<maps, impl_msg, str, tried, nwrites, go, scalar_, decoder>>

\* out2, err := Marshal(w, nil), w the value the last call unmarshalled.
GoRemarshal(ub, order) ==
    /\ codec.op \in {"Unmarshal", "UnmarshalUnsafe"}
    /\ codec.uerr = NoUErr
    /\ Step("Remarshal", "", "", FALSE)
    /\ codec' = Remarshalled(codec, go_Marshal(codec.out, ub, order))
    /\ UNCHANGED <<maps, impl_msg, str, tried, nwrites, go, scalar_, decoder>>

NextCodec ==
    \/ \E v \in Values, ub \in UBOutcomes, order \in MapOrders : GoMarshal(v, ub, order)
    \/ \E k \in 0..Len(codec.bytes), t \in Targets : GoUnmarshal(k, t)
    \/ \E node \in Trees, t \in Targets : GoUnmarshalUnsafe(node, t)
    \/ \E ub \in UBOutcomes, order \in MapOrders : GoRemarshal(ub, order)
    \/ \E v \in Values, data \in BOOLEAN, ub \in UBOutcomes, order \in MapOrders :
           GoMarshalUnsafe(v, data, ub, order)

SpecCodec == Init /\ [][NextCodec]_vars

(***************************************************************************)
(* The C++ annotation_key and Go's AnnotationKey.                          *)
(***************************************************************************)
\* annotation_key k;
KeyConstruct ==
    /\ Step("annotation_key", "", "", FALSE)
    /\ scalar_' = Scalar("PN_ULONG", 0)
    /\ UNCHANGED <<maps, impl_msg, str, tried, nwrites, go, codec, decoder>>

\* k = uint64_t(x);
KeyAssignUint64(x) ==
    /\ Step("uint64_t", "", "", FALSE)
    /\ scalar_' = Scalar("PN_ULONG", x)
    /\ UNCHANGED <<maps, impl_msg, str, tried, nwrites, go, codec, decoder>>

\* k = amqp_symbol(x);  k = std::string(x);  k = "x";
KeyAssignText(from, x) ==
    /\ Step(from, "", "", FALSE)
    /\ scalar_' = Bytes("PN_SYMBOL", x)
    /\ UNCHANGED <<maps, impl_msg, str, tried, nwrites, go, codec, decoder>>

NextKey ==
    \/ KeyConstruct
    \/ \E x \in KeyNumbers : KeyAssignUint64(x)
    \/ \E from \in {"amqp_symbol", "std::string", "char*"}, x \in KeyTexts :
           KeyAssignText(from, x)
    \/ \E node \in Trees : GoUnmarshalUnsafe(node, <<"*", "AnnotationKey">>)

SpecKey == Init /\ [][NextKey]_vars


(***************************************************************************)
(* The claims about Go's marshal.go and the annotation_key.                *)
(***************************************************************************)

\* C11: Unmarshal of the first K bytes of a valid encoding of L bytes,
\* 0 <= K < L, reports "not enough data" with 0 bytes consumed and leaves
\* the target as it was; Unmarshal of all L bytes decodes them, consuming
\* L bytes: it reports neither "not enough data" nor a decoding error (the
\* only error left is an UnmarshalError, the value not converting to the
\* target).
C11_Underflow ==
    codec.op = "Unmarshal" =>
        /\ codec.k < Len(codec.bytes) =>
               /\ codec.n = 0
               /\ codec.uerr = Errorf("not enough data")
               /\ codec.out = codec.prev
        /\ codec.k = Len(codec.bytes) =>
               /\ codec.n = Len(codec.bytes)
               /\ codec.uerr.GoType = <<>> => codec.uerr = NoUErr

\* All bytes but the last of an encoding of more than 20 bytes were given.
C11_Witness ==
    /\ codec.op = "Unmarshal"
    /\ Len(codec.bytes) > 20
    /\ codec.k = Len(codec.bytes) - 1
    /\ codec.uerr = Errorf("not enough data")

\* The width in bytes of the integer tags and of Go's integer types.
SignedTags == {"PN_BYTE", "PN_SHORT", "PN_INT", "PN_LONG"}

UnsignedTags == {"PN_UBYTE", "PN_USHORT", "PN_UINT", "PN_ULONG"}

TagWidth(type) ==
    CASE type \in {"PN_BYTE", "PN_UBYTE"} -> 1
      [] type \in {"PN_SHORT", "PN_USHORT"} -> 2
      [] type \in {"PN_INT", "PN_UINT"} -> 4
      [] type \in {"PN_LONG", "PN_ULONG"} -> 8

SignedTargets == {<<"int8">>, <<"int16">>, <<"int32">>, <<"int64">>, <<"int">>}

UnsignedTargets == {<<"uint8">>, <<"uint16">>, <<"uint32">>, <<"uint64">>, <<"uint">>}

TargetWidth(t) ==
    CASE t \in {<<"int8">>, <<"uint8">>} -> 1
      [] t \in {<<"int16">>, <<"uint16">>} -> 2
      [] t \in {<<"int32">>, <<"uint32">>} -> 4
      [] t \in {<<"int64">>, <<"uint64">>} -> 8
      [] t \in {<<"int">>, <<"uint">>} -> IF intIsLong THEN 8 ELSE 4

\* The call unmarshalled a value of a tag in tags into a pointer to one of
\* the types in targets.
Unmarshalled(tags, targets) ==
    /\ codec.op = "UnmarshalUnsafe"
    /\ codec.data[1].type \in tags
    /\ Kind(codec.t) = "ptr"
    /\ Elem(codec.t) \in targets

\* C12: a signed integer value unmarshals into every signed Go integer type
\* at least as wide, an unsigned one into every unsigned Go integer type at
\* least as wide, and the target receives the same number.
C12_WideningReads ==
    (\/ Unmarshalled(SignedTags, SignedTargets)
     \/ Unmarshalled(UnsignedTags, UnsignedTargets)) =>
        (TargetWidth(Elem(codec.t)) >= TagWidth(codec.data[1].type) =>
            /\ codec.uerr = NoUErr
            /\ codec.out.t = Elem(codec.t)
            /\ codec.out.n = codec.data[1].n)

\* The pairs of a tag and a target the conversion table does not allow,
\* as the claim lists them.
SequenceTargets ==
    {<<"*", "List">>, <<"*", "[]", "int32">>, <<"*", "[]", "interface{}">>,
     <<"*", "[]", "string">>}

MapTargets == {<<"*", "Map">>, <<"*", "map", "string", "int32">>}

Mismatch(type, t) ==
    \/ Kind(t) # "ptr"
    \/ /\ Kind(t) = "ptr"
       /\ \/ /\ type \in SignedTags /\ Elem(t) \in SignedTargets
             /\ TargetWidth(Elem(t)) < TagWidth(type)
          \/ /\ type \in UnsignedTags /\ Elem(t) \in UnsignedTargets
             /\ TargetWidth(Elem(t)) < TagWidth(type)
          \/ type = "PN_DOUBLE" /\ Elem(t) = <<"float32">>
          \/ type \in SignedTags /\ Elem(t) \in UnsignedTargets
          \/ type # "PN_MAP" /\ t \in MapTargets
          \/ type \notin {"PN_LIST", "PN_ARRAY"} /\ t \in SequenceTargets

\* C13: unmarshal of a value into a target the conversion table does not
\* allow for its tag fails with an UnmarshalError that names the tag and the
\* target; it never succeeds.
C13_MismatchReported ==
    (/\ codec.op = "UnmarshalUnsafe"
     /\ codec.data[1].type # "PN_DESCRIBED"
     /\ Mismatch(codec.data[1].type, codec.t)) =>
        /\ codec.uerr # NoUErr
        /\ codec.uerr.AMQPType = codec.data[1].type
        /\ codec.uerr.GoType = codec.t

\* x * 1000000 fits an int64.
MillisFit(x) == i64_div(i64_mul(x, 1000000), 1000000) = x

\* C14: a time.Time is put as the TIMESTAMP of its milliseconds since the
\* Unix epoch, and a TIMESTAMP x unmarshals to the instant x milliseconds
\* after the epoch.
C14_TimestampMillis ==
    /\ (codec.op = "Marshal" /\ codec.v.t = <<"time.Time">>) =>
           codec.data = <<Bytes("PN_TIMESTAMP", i64_div(codec.v.b, 1000000))>>
    /\ (/\ codec.op = "UnmarshalUnsafe"
        /\ codec.data[1].type = "PN_TIMESTAMP"
        /\ codec.t \in {<<"*", "time.Time">>, <<"*", "interface{}">>}
        /\ MillisFit(codec.data[1].b)) =>
           /\ codec.uerr = NoUErr
           /\ codec.out = Time(i64_mul(codec.data[1].b, 1000000))

\* C15: a TIMESTAMP x unmarshalled into a time.Time (or an interface{}) and
\* marshalled again is put as TIMESTAMP x, for every int64 x.
C15_TimestampRoundTrip ==
    (/\ codec.op = "Remarshal"
     /\ codec.data[1].type = "PN_TIMESTAMP"
     /\ codec.t \in {<<"*", "time.Time">>, <<"*", "interface{}">>}) =>
        codec.data2 = codec.data

\* A Go slice or array that is no byte sequence ([]byte, Binary and UUID are
\* put as BINARY and UUID).
HostSequence(v) ==
    /\ Kind(v.t) \in {"slice", "array"}
    /\ v.t \notin {<<"[]", "uint8">>, <<"Binary">>, <<"UUID">>}

\* The tag marshal puts a value of type t with.
ElementTag(t) == marshal(Zero(t), TRUE, "return", "fwd").tag

\* C16: marshal puts a Go slice or array as a LIST when its element type is
\* an interface and as an ARRAY otherwise; the ARRAY declares the tag of the
\* element type, and every element in it has that tag.
C16_SequenceTags ==
    (/\ codec.op = "Marshal"
     /\ codec.v \in CompositeValues
     /\ HostSequence(codec.v)) =>
        /\ ~codec.crash
        /\ codec.merr = NoErr
        /\ Len(codec.data) = 1
        /\ IF Kind(Elem(codec.v.t)) = "interface"
           THEN codec.data[1].type = "PN_LIST"
           ELSE /\ codec.data[1].type = "PN_ARRAY"
                /\ codec.data[1].et = ElementTag(Elem(codec.v.t))
                /\ \A i \in 1..Len(codec.data[1].kids) :
                       codec.data[1].kids[i].type = codec.data[1].et

\* The types in a value: its own, those of its children at any depth and
\* the element type of a slice or array.
RECURSIVE TypesIn(_)
TypesIn(v) ==
    {v.t} \cup (IF Kind(v.t) \in {"slice", "array"} THEN {Elem(v.t)} ELSE {})
          \cup UNION {TypesIn(v.kids[i]) : i \in 1..Len(v.kids)}

\* The forbidden types in a value.
Offending(v) == TypesIn(v) \cap ForbiddenTypes

\* C17: Marshal of a function, channel, uintptr, pointer, complex number or
\* struct without conversion - itself, or as a map key or value, a list
\* element or the element type of an array - fails with a MarshalError
\* "no conversion" whose GoType is the forbidden type, and returns no bytes.
C17_NoConversion ==
    (codec.op = "Marshal" /\ codec.v \in ForbiddenValues) =>
        /\ ~codec.crash
        /\ codec.merr # NoErr
        /\ codec.merr.s = <<"cannot marshal">> \o codec.merr.GoType
                            \o <<":", "no conversion">>
        /\ Offending(codec.v) = {codec.merr.GoType}
        /\ codec.bytes = <<>>

\* Marshal of a map[string]func with one entry has failed on the func.
C17_Witness ==
    /\ codec.op = "Marshal"
    /\ codec.v.t = <<"map", "string", "func">>
    /\ Len(codec.v.kids) = 2
    /\ codec.merr.GoType = <<"func">>
    /\ codec.bytes = <<>>

\* The value under all the descriptors of a node.
RECURSIVE Body(_)
Body(node) ==
    IF node.type = "PN_DESCRIBED" /\ Len(node.kids) >= 2 THEN Body(node.kids[2])
    ELSE node

\* What an 'any' slot receives from a node.
AnyOf(node) == go_UnmarshalUnsafe(node, <<"*", "interface{}">>, Nil).v

\* The described pair of a DESCRIBED node.
PairOf(node) ==
    GoVal(<<"Described">>, 0, <<>>, <<AnyOf(node.kids[1]), AnyOf(node.kids[2])>>)

\* C18: UnmarshalUnsafe of a DESCRIBED node stores descriptor and body in
\* a Described target, yields a Described in an interface{} target, and for
\* every other target does what unmarshalling the body (under all its
\* descriptors) does, error included; a node with fewer than two children
\* gives the error "bad described value encoding".  A Described so obtained
\* marshals back to the node.
C18_Described ==
    LET node == codec.data[1]
        t == codec.t
        plain == go_UnmarshalUnsafe(Body(node), t, codec.prev)
    IN  /\ (codec.op = "UnmarshalUnsafe" /\ node.type = "PN_DESCRIBED") =>
               IF Len(node.kids) < 2
               THEN /\ codec.uerr # NoUErr
                    /\ codec.uerr.AMQPType = "PN_DESCRIBED"
                    /\ codec.uerr.s[Len(codec.uerr.s)] = "bad described value encoding"
               ELSE IF t \in {<<"*", "Described">>, <<"*", "interface{}">>}
               THEN /\ codec.uerr = NoUErr
                    /\ codec.out = PairOf(node)
               ELSE /\ codec.uerr = plain.err
                    /\ codec.out = plain.v
        /\ (/\ codec.op = "Remarshal"
            /\ node.type = "PN_DESCRIBED"
            /\ t \in {<<"*", "Described">>, <<"*", "interface{}">>}) =>
               /\ codec.merr = NoErr
               /\ codec.data2 = <<node>>

\* A list described twice has been unmarshalled into a *List.
C18_Witness ==
    /\ codec.op = "UnmarshalUnsafe"
    /\ codec.data[1].type = "PN_DESCRIBED"
    /\ Len(codec.data[1].kids) = 2
    /\ codec.data[1].kids[2].type = "PN_DESCRIBED"
    /\ codec.t = <<"*", "List">>
    /\ codec.uerr = NoUErr
    /\ codec.out = Kids(<<"List">>, <<Num("int32", 1)>>)

\* The tags an annotation-key may hold.
KeyTags == {"PN_ULONG", "PN_SYMBOL"}

\* The Go types holding those tags.
KeyGoTypes == {<<"uint64">>, <<"Symbol">>}

\* C19: an annotation-key holds a ULONG or a SYMBOL: ULONG 0 once
\* constructed, ULONG after an assignment from uint64_t, SYMBOL after an
\* assignment from amqp_symbol, std::string or char*; unmarshalling a wire
\* value into an AnnotationKey succeeds only for ULONG and SYMBOL and then
\* holds a uint64 or a Symbol.
C19_AnnotationKey ==
    /\ scalar_.type \in KeyTags
    /\ last.op = "annotation_key" => scalar_ = Scalar("PN_ULONG", 0)
    /\ last.op = "uint64_t" => scalar_.type = "PN_ULONG"
    /\ last.op \in {"amqp_symbol", "std::string", "char*"} =>
           scalar_.type = "PN_SYMBOL"
    /\ (codec.op = "UnmarshalUnsafe" /\ codec.t = <<"*", "AnnotationKey">>) =>
           IF Body(codec.data[1]).type \in KeyTags
           THEN /\ codec.uerr = NoUErr
                /\ codec.out.t = <<"AnnotationKey">>
                /\ codec.out.kids[1].t \in KeyGoTypes
           ELSE codec.uerr # NoUErr


\* The node marshal puts for a value.
NodeOf(v) == marshal(v, TRUE, "return", "fwd").put

\* A Go map, slice or array whose entries are children on the wire.
HostCollection(v) == Kind(v.t) = "map" \/ HostSequence(v)

\* C20: Marshal puts a map of N entries as a MAP of 2N children, each key
\* followed by its value; every value Marshal encodes unmarshals into an
\* interface{}, with the children of a map, slice or array in their order in
\* the value; and marshalling what was unmarshalled gives the same bytes.
C20_Canonical ==
    /\ (/\ codec.op = "Marshal"
        /\ Kind(codec.v.t) = "map"
        /\ codec.merr = NoErr
        /\ ~codec.crash) =>
           /\ codec.data[1].type = "PN_MAP"
           /\ Len(codec.data[1].kids) = Len(codec.v.kids)
           /\ \A i \in 1..(Len(codec.v.kids) \div 2) :
                  \E j \in 1..(Len(codec.v.kids) \div 2) :
                      /\ <<codec.data[1].kids[2 * i - 1]>> = NodeOf(codec.v.kids[2 * j - 1])
                      /\ <<codec.data[1].kids[2 * i]>> = NodeOf(codec.v.kids[2 * j])
    /\ (/\ codec.op = "Unmarshal"
        /\ codec.k = Len(codec.bytes)
        /\ codec.t = <<"*", "interface{}">>) =>
           /\ codec.uerr = NoUErr
           /\ HostCollection(codec.v) =>
                  /\ Len(codec.out.kids) = Len(codec.v.kids)
                  /\ \A i \in 1..Len(codec.v.kids) :
                         NodeOf(codec.out.kids[i]) = NodeOf(codec.v.kids[i])
    /\ (/\ codec.op = "Remarshal"
        /\ Len(codec.bytes) > 0
        /\ codec.t = <<"*", "interface{}">>) =>
           /\ ~codec.crash
           /\ codec.merr = NoErr
           /\ codec.bytes2 = codec.bytes

\* The values marshal has a conversion for.
Marshalable == ScalarValues \cup CompositeValues

\* C22: marshal(v, nil) returns the AMQP tag of v for every marshalable v,
\* int, uint and Described included - the tag marshal returns for v with a
\* data object - and puts nothing: it neither panics nor ends the process.
C22_MarshalNil ==
    (codec.op = "MarshalUnsafe" /\ codec.nil /\ codec.v \in Marshalable) =>
        /\ ~codec.crash
        /\ codec.merr = NoErr
        /\ codec.tag = marshal(codec.v, TRUE, "return", "fwd").tag
        /\ codec.data = <<>>

\* C26: when MarshalUnsafe or UnmarshalUnsafe returns, with or without an
\* error, the cursor of the caller's data object is as deep as it was: every
\* enter has had its exit.
C26_Balanced ==
    (/\ codec.op \in {"MarshalUnsafe", "UnmarshalUnsafe"}
     /\ ~codec.nil
     /\ ~codec.crash) => codec.depth = 0

(***************************************************************************)
(* A Decoder on a stream: a writer has put whole values on it, and at most *)
(* the first bytes of one more, before it closed the stream.  Decode runs  *)
(* as the steps of its loop, more() as the reads of ReadFrom.              *)
(***************************************************************************)
MaxValues == 2

MaxChunk == 3

MaxCut == 8

StreamValues ==
    {Num("int32", 70000), Str(<<97, 98>>), Nil, Kids(<<"List">>, ListOfThree)}

Streams == UNION {[1..k -> StreamValues] : k \in 0..MaxValues}

\* The decoder made on a reader that holds bytes.
Made(vals, bytes) ==
    [NoDecoder EXCEPT !.pc = "idle", !.vals = vals, !.stream = bytes,
                      !.reader = bytes]

\* d := NewDecoder(r), r a reader of the values vals and the first cut bytes
\* of the value tail.
DecoderNew(vals, tail, cut) ==
    /\ decoder.pc = "none"
    /\ cut < Len(written(<<tail>>))
    /\ decoder' = Made(vals, written(vals) \o SubSeq(written(<<tail>>), 1, cut))
    /\ UNCHANGED <<maps, impl_msg, str, tried, last, nops, nwrites, go, codec,
                   scalar_>>

\* err := d.Decode(v), v of the type t: the call is entered with n == 0.
DecoderDecode(t) ==
    /\ decoder.pc = "idle"
    /\ decoder' = [decoder EXCEPT !.pc = "decode", !.t = t, !.err = NoUErr,
                                  !.merr = NoUErr]
    /\ UNCHANGED <<maps, impl_msg, str, tried, last, nops, nwrites, go, codec,
                   scalar_>>

\* One turn of the loop 'for n == 0' of Decode.
DecoderLoop ==
    /\ decoder.pc = "decode"
    /\ decoder' = Decode_decoded(decoder, decode(decoder.buffer))
    /\ UNCHANGED <<maps, impl_msg, str, tried, last, nops, nwrites, go, codec,
                   scalar_>>

\* One Read of ReadFrom inside more(): the reader hands over c bytes.
DecoderRead(c) ==
    /\ decoder.pc = "more"
    /\ c <= decoder.limit
    /\ c <= Len(decoder.reader)
    /\ decoder' = [decoder EXCEPT !.buffer = @ \o SubSeq(decoder.reader, 1, c),
                                  !.reader = Drop(@, c),
                                  !.limit = @ - c, !.nread = @ + c]
    /\ UNCHANGED <<maps, impl_msg, str, tried, last, nops, nwrites, go, codec,
                   scalar_>>

\* more() returns when the reader is at its end or the limit is reached;
\* Decode stores the error in err and goes round its loop again.
DecoderMore ==
    /\ decoder.pc = "more"
    /\ decoder.limit = 0 \/ Len(decoder.reader) = 0
    /\ decoder' = [decoder EXCEPT !.pc = "decode",
                                  !.merr = more_err(decoder.nread)]
    /\ UNCHANGED <<maps, impl_msg, str, tried, last, nops, nwrites, go, codec,
                   scalar_>>

NextDecoder ==
    \/ \E vals \in Streams, tail \in StreamValues, cut \in 0..MaxCut :
           DecoderNew(vals, tail, cut)
    \/ \E t \in PrefixTargets : DecoderDecode(t)
    \/ DecoderLoop
    \/ \E c \in 1..MaxChunk : DecoderRead(c)
    \/ DecoderMore

SpecDecoder == Init /\ [][NextDecoder]_vars

\* Decode's loop can take a turn exactly when the call is at its head.
LoopEnabled == decoder.pc = "decode"

\* The goroutine inside Decode keeps running and the reader keeps handing
\* over what the stream holds: weak fairness of the three steps, that of
\* DecoderLoop written out with LoopEnabled for ENABLED <<DecoderLoop>>_vars.
SpecDecoderLive ==
    /\ SpecDecoder
    /\ WF_vars(\E c \in 1..MaxChunk : DecoderRead(c))
    /\ WF_vars(DecoderMore)
    /\ []<>(~LoopEnabled) \/ []<><<DecoderLoop>>_vars

(***************************************************************************)
(* The Decoder claims.                                                     *)
(***************************************************************************)
\* What Unmarshal gives for the bytes of the one value v and a target t.
Alone(v, t) == go_Unmarshal(written(<<v>>), t, OldValue(t))

\* The i-th successful Decode returned the i-th value written.
InOrder(dec, i) ==
    /\ Alone(dec.vals[i], dec.got[i].t).err = NoUErr
    /\ dec.got[i].v = Alone(dec.vals[i], dec.got[i].t).v
    /\ dec.got[i].t = <<"*", "interface{}">> => dec.got[i].v = dec.vals[i]

\* C21: successive Decode calls return the values in the order they were
\* written, however the reader hands the bytes over; a successful call takes
\* exactly the bytes of its value out of the buffer, so the bytes of the
\* values returned, the bytes buffered and the bytes still in the reader are
\* the stream.
C21_DecodeInOrder ==
    decoder.pc # "none" =>
        /\ Len(decoder.got) <= Len(decoder.vals)
        /\ \A i \in 1..Len(decoder.got) : InOrder(decoder, i)
        /\ written(SubSeq(decoder.vals, 1, Len(decoder.got)))
             \o Buffered(decoder) \o decoder.reader = decoder.stream

\* The first of two values was returned and the bytes of the second, read
\* with it, are in the buffer.
C21_Witness ==
    /\ decoder.pc = "idle"
    /\ Len(decoder.vals) = 2
    /\ Len(decoder.got) = 1
    /\ decoder.stream = written(decoder.vals)
    /\ Len(decoder.reader) = 0
    /\ Buffered(decoder) = written(<<decoder.vals[2]>>)

\* Both values of a stream were returned, the second from the buffer.
C21_WitnessBoth ==
    /\ decoder.pc = "idle"
    /\ Len(decoder.vals) = 2
    /\ Len(decoder.got) = 2
    /\ decoder.vals[1] # decoder.vals[2]

\* Decode is inside its loop, the reader is at the end of the stream and the
\* buffer holds no complete value: nothing, or the first bytes of one.
AtEOF ==
    /\ decoder.pc = "decode"
    /\ Len(decoder.reader) = 0
    /\ decode(Buffered(decoder)) = [n |-> 0, err |-> NoUErr, data |-> <<>>]

\* C23: a Decode that finds the reader at the end of its input, with the
\* buffer empty or holding a strict prefix of a value, returns with io.EOF.
C23_DecodeEOF == AtEOF ~> (decoder.pc = "idle" /\ decoder.err = io_EOF)

\* more() has returned io.EOF to a Decode that is still in its loop.
C23_Looping ==
    /\ decoder.pc = "decode"
    /\ decoder.merr = io_EOF

\* No Decode returns io.EOF.
C23_NeverEOF == decoder.err # io_EOF

\* A Decode that met the end of the input stays in its loop.
C23_NoReturn == [][AtEOF => decoder'.pc # "idle"]_vars

(***************************************************************************)
(* The message claims on swap and on writes into the host maps.            *)
(***************************************************************************)
\* C24: a.swap(b), and the move construction that is a swap, exchanges the
\* whole content of the two messages: for each of properties, annotations
\* and instructions the accessor of a returns afterwards what the accessor
\* of b returned before, and the other way round.
C24_SwapContent ==
    [][Swap("a", "b") =>
          \A s \in Sec :
              /\ ViewOf(maps'["a"], impl_msg'["a"], s) = View("b", s)
              /\ ViewOf(maps'["b"], impl_msg'["b"], s) = View("a", s)]_vars

\* swap exchanges what the two pn_message_t hold and leaves each member map
\* with its message.
C24_SwapTrees ==
    [][Swap("a", "b") =>
          /\ impl_msg'["a"] = impl_msg["b"]
          /\ impl_msg'["b"] = impl_msg["a"]
          /\ maps' = maps]_vars

\* A swap was made of two messages whose properties differ, those of a in
\* its member map.
C24_Swapped ==
    /\ last.op = "swap"
    /\ ~map_empty(maps["a"]["properties"])
    /\ View("a", "properties") # View("b", "properties")

\* C25: no entry written into the host map of a section is lost without
\* notice: whatever reference it was written through, one taken before an
\* encode included, every entry the host map holds is in the bytes of the
\* next encode and in the map the next accessor returns.
C25_NoLostWrite ==
    [][\A m \in Msgs, s \in Sec :
          /\ Encode(m) =>
                 Entries(maps[m][s]) \subseteq TreeEntries(FrameTree(str'.bytes, s))
          /\ Access(m, s) => Entries(maps[m][s]) \subseteq Entries(maps'[m][s])]_vars

\* The entries of a host map are in the bytes of the next encode when the
\* subtree of the section was empty, and always in the map of the next
\* accessor.
C25_KeptUnlessBoth ==
    [][\A m \in Msgs, s \in Sec :
          /\ (Encode(m) /\ data_empty(impl_msg[m][s])) =>
                 Entries(maps[m][s]) \subseteq TreeEntries(FrameTree(str'.bytes, s))
          /\ Access(m, s) => Entries(maps[m][s]) \subseteq Entries(maps'[m][s])]_vars

\* An encode met a section with entries in its host map and in its subtree.
C25_EncodedBoth == last.op = "encode" /\ last.pre = "BOTH"
=============================================================================
